---------------------------- MODULE Spec2Model ----------------------------
(***************************************************************************)
(* A model of the weather aggregation core of mcp-weather:                 *)
(*   src/src/aggregator.py  WeatherAggregator (sanitizer, aggregate,       *)
(*                          statistical path, AI path, theme classifier)   *)
(*   src/src/filters.py     EWMA, KalmanFilter1D                           *)
(*   src/src/models.py      the pydantic models and their field types      *)
(*                                                                         *)
(* Text is a sequence of one-character strings.  A float of the source is  *)
(* a binary floating-point number, written as the rational [n, d] in       *)
(* lowest terms (20.5 is [n |-> 41, d |-> 2]): a significand of            *)
(* MantissaBits bits, and every operation rounds its exact result to the   *)
(* nearest such number, ties to even, as IEEE 754 arithmetic does with 53  *)
(* bits.                                                                   *)
(***************************************************************************)
EXTENDS Integers, Sequences, FiniteSets, TLC

VARIABLES
    weather_data,    \* the list of WeatherData snapshots the caller holds
    has_ai,          \* WeatherAggregator.has_ai
    last_call,       \* the method called, the list as it was, the arguments
    result,          \* what that call returned or raised
    calls,           \* collaborators that call invoked, in order
    prompt,          \* the prompt the last _ai_aggregate call built
    current_weather, \* get_ambient_theme: argument current_weather
    current_hour,    \* get_ambient_theme: argument current_hour
    theme,           \* get_ambient_theme: returned dict
    text,            \* _sanitize_prompt_input: argument text
    sanitized,       \* _sanitize_prompt_input: returned string
    kalman,          \* a KalmanFilter1D and the last operation on it
    smoothing,       \* an EWMA and its last smooth_array call
    particle,        \* a ParticleFilter1D and the last operation on it
    tasks            \* the aggregate calls running as concurrent tasks

vars == <<weather_data, has_ai, last_call, result, calls, prompt,
          current_weather, current_hour, theme, text, sanitized,
          kalman, smoothing, particle, tasks>>

aggVars == <<weather_data, has_ai, last_call, result, calls, prompt>>
themeVars == <<current_weather, current_hour, theme>>
sanVars == <<text, sanitized>>
filterVars == <<kalman, smoothing, particle>>

\* An Optional[T] value is a sequence of at most one element: None is the
\* empty sequence and Some(v) holds v.  (Text is never wrapped where the
\* source tests it with `not text`, which treats None and "" alike.)
None == <<>>
Some(v) == <<v>>
IsNone(o) == Len(o) = 0
Val(o) == o[1]
\* The value of an output variable before the call has returned.
Pending == <<>>

---------------------------------------------------------------------------
(* Numbers (Python float and int).                                         *)

\* F(v) and F(a, b), with the arguments evaluated once and then named: the
\* way an assignment `x = v` of the source names a value.
Let(v, F(_)) == CHOOSE r \in {F(x) : x \in {v}} : TRUE
Let2(a, b, F(_, _)) == CHOOSE r \in {F(x, y) : x \in {a}, y \in {b}} : TRUE

Abs(n) == IF n < 0 THEN -n ELSE n
Max(a, b) == IF a > b THEN a ELSE b

RECURSIVE GCD(_, _)
GCD(a, b) == IF b = 0 THEN a ELSE CHOOSE g \in {GCD(b, r) : r \in {a % b}} : TRUE

\* the rational n/d in lowest terms with a positive denominator (d # 0)
Exact(n, d) ==
    CHOOSE r \in {[n |-> x \div g, d |-> y \div g] :
                      x \in {n}, y \in {d},
                      g \in {GCD(Abs(n), Abs(d)) * (IF d < 0 THEN -1 ELSE 1)}} : TRUE

\* The precision of a float: the bits of its significand, and the number
\* of binary places of the smallest (subnormal) floats.
MantissaBits == 7
FractionBits == 10

\* floor(log2(q)) for an integer q >= 1
RECURSIVE FloorLog2(_)
FloorLog2(q) == IF q < 2 THEN 0 ELSE 1 + FloorLog2(q \div 2)

\* a / b rounded to the nearest integer, ties to even (a >= 0, b > 0)
RoundDiv(a, b) ==
    IF 2 * (a % b) > b \/ (2 * (a % b) = b /\ (a \div b) % 2 = 1)
    THEN (a \div b) + 1 ELSE a \div b

\* With a/b in [2^e0, 2^(e0+1)), the floats around a/b are the multiples
\* of 2^ulp, ulp = e0 - (MantissaBits - 1), and of 2^-FractionBits at least.
Ulp(a, b) ==
    Max((IF a >= b THEN FloorLog2(a \div b) ELSE -(FloorLog2((b - 1) \div a) + 1))
            - (MantissaBits - 1),
        -FractionBits)

\* The float nearest to n/d (d # 0): a literal of the source, or the
\* result of an operation.
Rat(n, d) ==
    IF n = 0 THEN [n |-> 0, d |-> 1]
    ELSE CHOOSE r \in
             {Exact((IF (n < 0) = (d < 0) THEN 1 ELSE -1)
                        * RoundDiv(Abs(n) * down, Abs(d) * up) * up,
                    down) :
                  up \in {2^Max(Ulp(Abs(n), Abs(d)), 0)},
                  down \in {2^Max(-Ulp(Abs(n), Abs(d)), 0)}} : TRUE

\* an int as a float
F(i) == Rat(i, 1)

RAdd(a, b) ==
    CHOOSE r \in {Rat(x.n * y.d + y.n * x.d, x.d * y.d) : x \in {a}, y \in {b}} : TRUE
RSub(a, b) ==
    CHOOSE r \in {Rat(x.n * y.d - y.n * x.d, x.d * y.d) : x \in {a}, y \in {b}} : TRUE
RMul(a, b) ==
    CHOOSE r \in {Rat(x.n * y.n, x.d * y.d) : x \in {a}, y \in {b}} : TRUE
RDiv(a, b) ==
    CHOOSE r \in {Rat(x.n * y.d, x.d * y.n) : x \in {a}, y \in {b}} : TRUE
RLt(a, b) == Let2(a, b, LAMBDA x, y : x.n * y.d < y.n * x.d)
RLe(a, b) == Let2(a, b, LAMBDA x, y : x.n * y.d <= y.n * x.d)
IsIntegral(a) == a.d = 1

\* sorted(values)[k] for k = 0 .. len - 1; equal values are ordered by
\* position, as a stable sort orders them.
SortedAt(values, k) ==
    LET rank(i) == Cardinality({j \in 1..Len(values) :
                        \/ RLt(values[j], values[i])
                        \/ (values[j] = values[i] /\ j < i)})
    IN  values[CHOOSE i \in 1..Len(values) : rank(i) = k]

\* The median of a non-empty list of floats: the middle value, or the mean
\* of the two middle values (numpy.median, and the local median() of
\* _statistical_aggregate).
MedianOf(values) ==
    Let(values, LAMBDA v :
        LET n == Len(v)
        IN  IF n % 2 = 1 THEN SortedAt(v, n \div 2)
            ELSE RDiv(RAdd(SortedAt(v, n \div 2 - 1), SortedAt(v, n \div 2)), F(2)))

\* [f(x) for x in seq]
MapSeq(seq, f(_)) == [i \in 1..Len(seq) |-> f(seq[i])]

---------------------------------------------------------------------------
(* src/src/filters.py: EWMA                                                *)

\* EWMA.__init__
EWMA(alpha) == [alpha |-> alpha, last_val |-> None]

\* The loop of EWMA.smooth_array from data[i] on; data holds Optional floats.
RECURSIVE EWMA_smooth_loop(_, _, _, _)
EWMA_smooth_loop(self, data, i, current_val) ==
    IF i > Len(data) THEN <<>>
    ELSE LET x == data[i]
         IN  Let(IF ~IsNone(x)
                 THEN RAdd(RMul(self.alpha, Val(x)),
                           RMul(RSub(F(1), self.alpha), current_val))
                 ELSE current_val,
                 LAMBDA next_val :
                     <<next_val>> \o EWMA_smooth_loop(self, data, i + 1, next_val))

\* EWMA.smooth_array with current_val starting at 0.0 whatever the data
EWMA_smooth_array_from_zero(self, data) ==
    IF data = <<>> THEN <<>> ELSE EWMA_smooth_loop(self, data, 1, F(0))

\* EWMA.smooth_array (it reads self.alpha and writes no field of self)
EWMA_smooth_array(self, data) ==
    Let2(self, data, LAMBDA ewma, d :
        IF d = <<>> THEN <<>>
        ELSE Let(SelectSeq(d, LAMBDA x : ~IsNone(x)), LAMBDA valid :
                 EWMA_smooth_loop(ewma, d, 1,
                                  IF valid # <<>> THEN Val(valid[1]) ELSE F(0))))

---------------------------------------------------------------------------
(* src/src/filters.py: KalmanFilter1D                                      *)

\* KalmanFilter1D.__init__
KalmanFilter1D(process_variance, measurement_variance) ==
    [x |-> F(0), p |-> F(1), q |-> process_variance, r |-> measurement_variance,
     initialized |-> FALSE]

\* KalmanFilter1D.predict
Kalman_predict(self) == [self EXCEPT !.p = RAdd(self.p, self.q)]

\* KalmanFilter1D.update; measurement and r are Optional floats
Kalman_update(self, measurement, r) ==
    IF IsNone(measurement) THEN self
    ELSE IF ~self.initialized
    THEN [self EXCEPT !.x = Val(measurement),
                      !.p = IF ~IsNone(r) THEN Val(r) ELSE self.r,
                      !.initialized = TRUE]
    ELSE LET measurement_noise == IF ~IsNone(r) THEN Val(r) ELSE self.r
         IN  Let(RDiv(self.p, RAdd(self.p, measurement_noise)), LAMBDA k :
                 [self EXCEPT !.x = RAdd(self.x, RMul(k, RSub(Val(measurement), self.x))),
                              !.p = RMul(RSub(F(1), k), self.p)])

\* The update loop of KalmanFilter1D.fuse from measurements[i] on;
\* variances is an Optional list.
RECURSIVE Kalman_fuse_loop(_, _, _, _)
Kalman_fuse_loop(self, measurements, variances, i) ==
    IF i > Len(measurements) THEN self
    ELSE LET z == measurements[i]
             r == IF ~IsNone(variances) /\ Val(variances) # <<>>
                  THEN Some(Val(variances)[i]) ELSE Some(self.r)
         IN  Let(IF ~IsNone(z) THEN Kalman_update(self, z, r) ELSE self,
                 LAMBDA updated :
                     Kalman_fuse_loop(updated, measurements, variances, i + 1))

\* KalmanFilter1D.fuse without its two early returns: an empty or all-null
\* list goes on to mark the filter initialized.
Kalman_fuse_unguarded(self, measurements, variances) ==
    LET valid == SelectSeq(measurements, LAMBDA m : ~IsNone(m))
        seeded == IF self.initialized THEN self
                  ELSE [self EXCEPT !.x = IF valid = <<>> THEN self.x
                                          ELSE MedianOf(MapSeq(valid, Val)),
                                    !.initialized = TRUE]
    IN  CHOOSE o \in {[self |-> after, value |-> after.x] :
                          after \in {Kalman_fuse_loop(seeded, measurements,
                                                      variances, 1)}} : TRUE

\* KalmanFilter1D.fuse seeding x from the median of the batch on every
\* call, not only on the first
Kalman_fuse_reseeding(self, measurements, variances) ==
    LET valid == SelectSeq(measurements, LAMBDA m : ~IsNone(m))
    IN  IF measurements = <<>> \/ (~self.initialized /\ valid = <<>>)
        THEN [self |-> self, value |-> F(0)]
        ELSE CHOOSE o \in
                 {[self |-> after, value |-> after.x] :
                      after \in {Kalman_fuse_loop(
                                     [self EXCEPT
                                        !.x = IF valid = <<>> THEN self.x
                                              ELSE MedianOf(MapSeq(valid, Val)),
                                        !.initialized = TRUE],
                                     measurements, variances, 1)}} : TRUE

\* KalmanFilter1D.fuse starting from the x = 0.0 of __init__, without the
\* median of lines 103-106
Kalman_fuse_unseeded(self, measurements, variances) ==
    LET valid == SelectSeq(measurements, LAMBDA m : ~IsNone(m))
    IN  IF measurements = <<>> \/ (~self.initialized /\ valid = <<>>)
        THEN [self |-> self, value |-> F(0)]
        ELSE CHOOSE o \in
                 {[self |-> after, value |-> after.x] :
                      after \in {Kalman_fuse_loop([self EXCEPT !.initialized = TRUE],
                                                  measurements, variances, 1)}} : TRUE

\* KalmanFilter1D.fuse: the filter afterwards and the value returned
Kalman_fuse(self, measurements, variances) ==
    Let2(self, measurements, LAMBDA kf, ms :
        IF ms = <<>> THEN [self |-> kf, value |-> F(0)]
        ELSE Let(SelectSeq(ms, LAMBDA m : ~IsNone(m)), LAMBDA valid_measurements :
             IF ~kf.initialized /\ valid_measurements = <<>>
             THEN [self |-> kf, value |-> F(0)]
             ELSE Let(IF ~kf.initialized
                      THEN [kf EXCEPT
                              !.x = MedianOf(MapSeq(valid_measurements, Val)),
                              !.initialized = TRUE]
                      ELSE kf,
                      LAMBDA seeded :
                          Let(Kalman_fuse_loop(seeded, ms, variances, 1), LAMBDA after :
                              [self |-> after, value |-> after.x]))))

---------------------------------------------------------------------------
(* src/src/filters.py: ParticleFilter1D                                    *)
(* What numpy draws at random is an argument of the method: draws is a     *)
(* list of N samples of the standard normal distribution                   *)
(* (np.random.normal(loc, scale) is loc + scale * sample), indexes the     *)
(* list of N indices np.random.choice returns.                             *)

\* np.sum of values[1..k], added from the left
RECURSIVE SumTo(_, _)
SumTo(values, k) == IF k = 0 THEN F(0) ELSE RAdd(SumTo(values, k - 1), values[k])

\* np.exp(-t) for a float t >= 0: e^-floor(t) by repeated multiplication
\* with e^-1, e^-(t - floor(t)) by its Taylor polynomial of degree 5, every
\* operation rounded; 0 once e^-t is below every positive float.
RECURSIVE ExpNegInt(_)
ExpNegInt(k) == IF k = 0 THEN F(1) ELSE RMul(Rat(36788, 100000), ExpNegInt(k - 1))
ExpNegFrac(u) ==
    RSub(F(1), RMul(u,
    RSub(F(1), RMul(RDiv(u, F(2)),
    RSub(F(1), RMul(RDiv(u, F(3)),
    RSub(F(1), RMul(RDiv(u, F(4)),
    RSub(F(1), RDiv(u, F(5)))))))))))
ExpNeg(t) ==
    IF t.n >= 2 * FractionBits * t.d THEN F(0)
    ELSE CHOOSE r \in {RMul(ExpNegInt(k), ExpNegFrac(RSub(x, F(k)))) :
                          x \in {t}, k \in {t.n \div t.d}} : TRUE

\* ParticleFilter1D.__init__
ParticleFilter1D(num_particles, process_noise) ==
    [n |-> num_particles, process_noise |-> process_noise, particles |-> <<>>,
     weights |-> <<>>, initialized |-> FALSE]

\* np.ones(n) / n
Uniform(n) == [i \in 1..n |-> RDiv(F(1), F(n))]

\* ParticleFilter1D.initialize
Particle_initialize(self, initial_guess, spread, draws) ==
    [self EXCEPT
        !.particles = [i \in 1..self.n |-> RAdd(initial_guess, RMul(spread, draws[i]))],
        !.weights = Uniform(self.n),
        !.initialized = TRUE]

\* ParticleFilter1D.predict
Particle_predict(self, draws) ==
    IF ~self.initialized THEN self
    ELSE [self EXCEPT
            !.particles = [i \in 1..Len(self.particles) |->
                RAdd(self.particles[i], RMul(self.process_noise, draws[i]))]]

\* self.weights after `self.weights *= new_weights` in update
Particle_weighted(self, measurement, measurement_noise) ==
    [i \in 1..Len(self.weights) |->
        CHOOSE w \in
            {RMul(self.weights[i], ExpNeg(RDiv(RMul(diff, diff), denom))) :
                 diff \in {RSub(self.particles[i], measurement)},
                 denom \in {RMul(F(2), RMul(measurement_noise, measurement_noise))}} :
            TRUE]

\* the normalisation at the end of update: weights holds the new weights
Particle_normalized(self, weights) ==
    CHOOSE after \in
        {[self EXCEPT !.weights =
              IF RLt(F(0), w_sum) THEN [i \in 1..Len(weights) |-> RDiv(weights[i], w_sum)]
              ELSE Uniform(self.n)] :
             w_sum \in {SumTo(weights, Len(weights))}} : TRUE

\* ParticleFilter1D.update without the normalisation of lines 158-164
Particle_update_unnormalized(self, measurement, measurement_noise) ==
    IF ~self.initialized \/ IsNone(measurement) THEN self
    ELSE [self EXCEPT
            !.weights = Particle_weighted(self, Val(measurement), measurement_noise)]

\* ParticleFilter1D.update; measurement is an Optional float
Particle_update(self, measurement, measurement_noise) ==
    IF ~self.initialized \/ IsNone(measurement) THEN self
    ELSE CHOOSE after \in
             {Particle_normalized(self, w) :
                  w \in {Particle_weighted(self, Val(measurement), measurement_noise)}} :
             TRUE

\* np.random.choice(n, n, p=p) raises ValueError for a negative probability
\* and for probabilities whose sum is further from 1 than sqrt(eps).
ChoiceTolerance == Rat(1, 2^((MantissaBits - 1) \div 2))
ChoiceAccepts(p) ==
    /\ \A i \in 1..Len(p) : RLe(F(0), p[i])
    /\ \E sum \in {SumTo(p, Len(p))} :
         /\ RLe(RSub(sum, F(1)), ChoiceTolerance)
         /\ RLe(RSub(F(1), sum), ChoiceTolerance)

\* the lists of indices np.random.choice can return: an index of
\* probability 0 is never drawn
Drawable(self) ==
    [1..self.n -> {i \in 1..Len(self.weights) : RLt(F(0), self.weights[i])}]

\* ParticleFilter1D.resample: the filter afterwards, and the error raised
Particle_resample(self, indexes) ==
    IF ~self.initialized THEN [self |-> self, error |-> None]
    ELSE IF ~ChoiceAccepts(self.weights)
    THEN [self |-> self, error |-> Some("ValueError")]
    ELSE [self |-> [self EXCEPT
                      !.particles = [i \in 1..self.n |-> self.particles[indexes[i]]],
                      !.weights = Uniform(self.n)],
          error |-> None]

\* ParticleFilter1D.estimate
Particle_estimate(self) ==
    IF ~self.initialized THEN F(0)
    ELSE CHOOSE r \in
             {SumTo(products, Len(products)) :
                  products \in {[i \in 1..Len(self.particles) |->
                                   RMul(self.particles[i], self.weights[i])]}} : TRUE

\* one entry of the list of calls fuse makes on self: the method and its
\* first argument
Step(call, arg) == [call |-> call, arg |-> arg]

\* The update loop of ParticleFilter1D.fuse from valid_measurements[i] on.
RECURSIVE Particle_fuse_loop(_, _, _, _)
Particle_fuse_loop(self, valid_measurements, measurement_noise, i) ==
    IF i > Len(valid_measurements) THEN self
    ELSE CHOOSE after \in
             {Particle_fuse_loop(updated, valid_measurements, measurement_noise, i + 1) :
                  updated \in {Particle_update(self, Some(valid_measurements[i]),
                                               measurement_noise)}} : TRUE

\* ParticleFilter1D.fuse down to its update loop (lines 185-191), for a
\* non-empty list valid_measurements: the filter then, and the calls made
Particle_fuse_updated(self, valid_measurements, measurement_noise, init_draws, predict_draws) ==
    CHOOSE o \in
        {[self |-> Particle_fuse_loop(Particle_predict(started, predict_draws),
                                      valid_measurements, measurement_noise, 1),
          log |-> (IF self.initialized THEN <<>>
                   ELSE <<Step("initialize", Some(MedianOf(valid_measurements)))>>)
                  \o <<Step("predict", None)>>
                  \o [i \in 1..Len(valid_measurements) |->
                         Step("update", Some(valid_measurements[i]))]] :
             started \in {IF self.initialized THEN self
                          ELSE Particle_initialize(self, MedianOf(valid_measurements),
                                                   F(5), init_draws)}} : TRUE

\* ParticleFilter1D.fuse from line 193 on: updated is the filter after the
\* update loop and log the calls made so far
Particle_fuse_end(updated, indexes, log) ==
    CHOOSE o \in
        {IF ~IsNone(r.error)
         THEN [self |-> r.self, value |-> None, error |-> r.error,
               log |-> log \o <<Step("resample", None)>>,
               drawn |-> TRUE]
         ELSE [self |-> r.self, value |-> Some(Particle_estimate(r.self)),
               error |-> None,
               log |-> log \o <<Step("resample", None), Step("estimate", None)>>,
               drawn |-> indexes \in Drawable(updated)] :
             r \in {Particle_resample(updated, indexes)}} : TRUE

\* ParticleFilter1D.fuse without the resample of line 193
Particle_fuse_without_resample(self, measurements, measurement_noise, init_draws, predict_draws, indexes) ==
    IF \A i \in 1..Len(measurements) : IsNone(measurements[i])
    THEN [self |-> self, value |-> Some(F(0)), error |-> None, log |-> <<>>,
          drawn |-> TRUE]
    ELSE CHOOSE o \in
             {[self |-> u.self, value |-> Some(Particle_estimate(u.self)),
               error |-> None, log |-> u.log \o <<Step("estimate", None)>>,
               drawn |-> indexes \in Drawable(u.self)] :
                  u \in {Particle_fuse_updated(
                             self,
                             MapSeq(SelectSeq(measurements, LAMBDA m : ~IsNone(m)), Val),
                             measurement_noise, init_draws, predict_draws)}} : TRUE

\* ParticleFilter1D.fuse; measurements is a list of Optional floats.  The
\* filter afterwards, the value returned or the error raised, the calls
\* made on self in order, and whether np.random.choice can have drawn
\* indexes.
Particle_fuse(self, measurements, measurement_noise, init_draws, predict_draws, indexes) ==
    IF \A i \in 1..Len(measurements) : IsNone(measurements[i])
    THEN [self |-> self, value |-> Some(F(0)), error |-> None, log |-> <<>>,
          drawn |-> TRUE]
    ELSE CHOOSE o \in
             {Particle_fuse_end(u.self, indexes, u.log) :
                  u \in {Particle_fuse_updated(
                             self,
                             MapSeq(SelectSeq(measurements, LAMBDA m : ~IsNone(m)), Val),
                             measurement_noise, init_draws, predict_draws)}} : TRUE

---------------------------------------------------------------------------
(* Text helpers (Python str).                                              *)

\* Characters str.split() treats as separators (those the model's texts use).
Whitespace == {" ", "\t", "\n"}

UpperLetters == <<"A","B","C","D","E","F","G","H","I","J","K","L","M",
                  "N","O","P","Q","R","S","T","U","V","W","X","Y","Z">>
LowerLetters == <<"a","b","c","d","e","f","g","h","i","j","k","l","m",
                  "n","o","p","q","r","s","t","u","v","w","x","y","z">>

\* str.lower() on one character.
LowerChar(c) ==
    IF \E i \in 1..26 : UpperLetters[i] = c
    THEN LowerLetters[CHOOSE i \in 1..26 : UpperLetters[i] = c]
    ELSE c

\* str.upper() on one character.
UpperChar(c) ==
    IF \E i \in 1..26 : LowerLetters[i] = c
    THEN UpperLetters[CHOOSE i \in 1..26 : LowerLetters[i] = c]
    ELSE c

\* str.lower()
Lower(s) == [i \in 1..Len(s) |-> LowerChar(s[i])]
\* str.upper()
Upper(s) == [i \in 1..Len(s) |-> UpperChar(s[i])]

\* term occurs in s at position i
OccursAt(s, term, i) ==
    /\ i + Len(term) - 1 <= Len(s)
    /\ \A j \in 1..Len(term) : s[i + j - 1] = term[j]

\* Python's `term in s`
Contains(s, term) == \E i \in 1..(Len(s) - Len(term) + 1) : OccursAt(s, term, i)

\* str.replace(term, ""): one left-to-right scan of s[lo..hi] that removes
\* non-overlapping occurrences of term.  skip is the number of characters
\* of an occurrence found earlier that are still to be dropped; the scan
\* returns the characters kept and the skip count it ends with.  (The
\* range is halved so that the evaluation depth is logarithmic, and the
\* halves are bound variables so that each is evaluated once.)
RECURSIVE ReplaceScan(_, _, _, _, _)
ReplaceScan(s, term, lo, hi, skip) ==
    IF lo > hi THEN [skip |-> skip, out |-> <<>>]
    ELSE IF lo = hi THEN
        IF skip > 0 THEN [skip |-> skip - 1, out |-> <<>>]
        ELSE IF OccursAt(s, term, lo) THEN [skip |-> Len(term) - 1, out |-> <<>>]
        ELSE [skip |-> 0, out |-> <<s[lo]>>]
    ELSE LET mid == (lo + hi) \div 2
         IN  CHOOSE r \in UNION
                 {{[skip |-> right.skip, out |-> left.out \o right.out] :
                     right \in {ReplaceScan(s, term, mid + 1, hi, left.skip)}} :
                   left \in {ReplaceScan(s, term, lo, mid, skip)}} : TRUE

StrReplaceEmpty(s, term) == ReplaceScan(s, term, 1, Len(s), 0).out

\* " ".join(s.split()): runs of whitespace become one space, leading and
\* trailing whitespace disappears.  started: a word has been emitted;
\* gap: whitespace has been seen since the last word character.
RECURSIVE JoinSplitScan(_, _, _, _, _)
JoinSplitScan(s, lo, hi, started, gap) ==
    IF lo > hi THEN [started |-> started, gap |-> gap, out |-> <<>>]
    ELSE IF lo = hi THEN
        IF s[lo] \in Whitespace
        THEN [started |-> started, gap |-> started, out |-> <<>>]
        ELSE [started |-> TRUE, gap |-> FALSE,
              out |-> IF gap THEN <<" ", s[lo]>> ELSE <<s[lo]>>]
    ELSE LET mid == (lo + hi) \div 2
         IN  CHOOSE r \in UNION
                 {{[started |-> right.started, gap |-> right.gap,
                    out |-> left.out \o right.out] :
                     right \in {JoinSplitScan(s, mid + 1, hi, left.started, left.gap)}} :
                   left \in {JoinSplitScan(s, lo, mid, started, gap)}} : TRUE

JoinSplit(s) == JoinSplitScan(s, 1, Len(s), FALSE, FALSE).out

---------------------------------------------------------------------------
(* Python values as they reach a pydantic model, and src/src/models.py.    *)
(* A validated model is a record of typed fields: a float field holds a    *)
(* rational, an int field an integer, a str field a text, and an Optional  *)
(* field wraps its value.                                                  *)

PyNone == [t |-> "NoneType"]
PyFloat(r) == [t |-> "float", f |-> r]
PyInt(i) == [t |-> "int", i |-> i]
PyStr(txt) == [t |-> "str", s |-> txt]
PyList == [t |-> "list"]
PyDict(d) == [t |-> "dict", d |-> d]

\* typed Optional fields handed back to a constructor
PyOptFloat(o) == IF IsNone(o) THEN PyNone ELSE PyFloat(Val(o))
PyOptInt(o) == IF IsNone(o) THEN PyNone ELSE PyInt(Val(o))
PyOptStr(o) == IF IsNone(o) THEN PyNone ELSE PyStr(Val(o))

Digits == <<"0","1","2","3","4","5","6","7","8","9">>
IsDigits(txt) ==
    /\ txt # <<>>
    /\ \A i \in 1..Len(txt) : \E k \in 1..10 : Digits[k] = txt[i]
RECURSIVE DigitsValue(_)
DigitsValue(txt) ==
    IF txt = <<>> THEN 0
    ELSE 10 * DigitsValue(SubSeq(txt, 1, Len(txt) - 1))
         + (CHOOSE k \in 0..9 : Digits[k + 1] = txt[Len(txt)])

Valid(v) == [ok |-> TRUE, v |-> v]
Invalid == [ok |-> FALSE]

\* pydantic's validation of a field declared float (lax mode): a number, or
\* a str that reads as a number.
ValidateFloat(pv) ==
    CASE pv.t = "float" -> Valid(pv.f)
      [] pv.t = "int" -> Valid(F(pv.i))
      [] pv.t = "str" -> IF IsDigits(pv.s) THEN Valid(F(DigitsValue(pv.s))) ELSE Invalid
      [] OTHER -> Invalid

\* a field declared int: an int, a float without fractional part, or a str
\* of digits.
ValidateInt(pv) ==
    CASE pv.t = "int" -> Valid(pv.i)
      [] pv.t = "float" -> IF IsIntegral(pv.f) THEN Valid(pv.f.n) ELSE Invalid
      [] pv.t = "str" -> IF IsDigits(pv.s) THEN Valid(DigitsValue(pv.s)) ELSE Invalid
      [] OTHER -> Invalid

\* a field declared str: only a str.
ValidateStr(pv) == IF pv.t = "str" THEN Valid(pv.s) ELSE Invalid

\* a field declared Optional[T]
ValidateOptional(pv, validate(_)) ==
    IF pv.t = "NoneType" THEN Valid(None)
    ELSE LET r == validate(pv) IN IF r.ok THEN Valid(Some(r.v)) ELSE Invalid

\* models.CurrentWeather(**kw): the validated model, or ValidationError.
\* Fields the caller does not pass take their default, None.
CurrentWeather(kw_) ==
    Let(kw_, LAMBDA kw :
    LET temperature == ValidateFloat(kw.temperature)
        feels_like == ValidateOptional(kw.feels_like, ValidateFloat)
        humidity == ValidateOptional(kw.humidity, ValidateInt)
        wind_speed == ValidateOptional(kw.wind_speed, ValidateFloat)
        weather_code == ValidateOptional(kw.weather_code, ValidateInt)
        weather_description == ValidateOptional(kw.weather_description, ValidateStr)
        uv_index == ValidateOptional(kw.uv_index, ValidateFloat)
        pressure == ValidateOptional(kw.pressure, ValidateFloat)
        cloud_cover == ValidateOptional(kw.cloud_cover, ValidateInt)
    IN  IF /\ temperature.ok /\ feels_like.ok /\ humidity.ok /\ wind_speed.ok
           /\ weather_code.ok /\ weather_description.ok /\ uv_index.ok
           /\ pressure.ok /\ cloud_cover.ok
        THEN Valid([temperature |-> temperature.v, feels_like |-> feels_like.v,
                    humidity |-> humidity.v, wind_speed |-> wind_speed.v,
                    wind_direction |-> None, weather_code |-> weather_code.v,
                    weather_description |-> weather_description.v,
                    uv_index |-> uv_index.v, visibility |-> None,
                    pressure |-> pressure.v, cloud_cover |-> cloud_cover.v])
        ELSE Invalid)

\* The fields models.Astronomy declares.
AstronomyFields == {"sunrise", "sunset", "moon_phase", "moon_phase_name"}

\* models.Astronomy(): every field at its default
Astronomy == [f \in AstronomyFields |-> None]

\* models.AggregatedForecast(**kw): the validated model, or ValidationError.
\* location, the series, astronomy and sources_used are passed as validated
\* values; current is an Optional CurrentWeather and must not be None,
\* ai_summary must be a str and confidence_score a float.
AggregatedForecast(kw_) ==
    Let(kw_, LAMBDA kw :
    LET ai_summary == ValidateStr(kw.ai_summary)
        confidence_score == ValidateFloat(kw.confidence_score)
    IN  IF ~IsNone(kw.current) /\ ai_summary.ok /\ confidence_score.ok
        THEN Valid([location |-> kw.location,
                    current |-> Val(kw.current),
                    daily_forecast |-> kw.daily_forecast,
                    hourly_forecast |-> kw.hourly_forecast,
                    astronomy |-> kw.astronomy,
                    ai_summary |-> ai_summary.v,
                    confidence_score |-> confidence_score.v,
                    sources_used |-> kw.sources_used])
        ELSE Invalid)

---------------------------------------------------------------------------
(* WeatherAggregator._sanitize_prompt_input                                *)

\* text[:200]
SanitizeMaxLen == 200

System_ == <<"S","y","s","t","e","m",":">>
User_ == <<"U","s","e","r",":">>
Assistant_ == <<"A","s","s","i","s","t","a","n","t",":">>
TripleSingle == <<"'","'","'">>
TripleDouble == <<"\"","\"","\"">>

\* blacklist, in the order the loop removes the terms
blacklist == <<System_, User_, Assistant_, TripleSingle, TripleDouble>>

RECURSIVE RemoveTerms(_, _)
RemoveTerms(s, k) ==
    IF k > Len(blacklist) THEN s
    ELSE RemoveTerms(StrReplaceEmpty(s, blacklist[k]), k + 1)

_sanitize_prompt_input(t) ==
    IF Len(t) = 0 THEN <<>>
    ELSE JoinSplit(RemoveTerms(SubSeq(t, 1, IF Len(t) < SanitizeMaxLen
                                            THEN Len(t) ELSE SanitizeMaxLen), 1))

\* Inputs of the sanitizer: the empty text and every concatenation of
\* at most MaxPieces pieces.  Filler is long enough for text[:200] to cut
\* the text, also in the middle of a token.
MaxPieces == 3
FillerLen == 196
Filler == [i \in 1..FillerLen |-> "a"]

Pieces == {System_, User_, TripleDouble,
           <<"S","y","s">>, <<"t","e","m",":">>,
           <<"A","s","s","i","s","t">>, <<"a","n","t",":">>,
           <<"'">>, <<"\"">>, <<" ">>, <<"\t">>, <<"b">>, Filler}

RECURSIVE Concatenations(_)
Concatenations(n) ==
    IF n = 0 THEN {<<>>}
    ELSE LET shorter == Concatenations(n - 1)
         IN  shorter \cup {s \o p : s \in shorter, p \in Pieces}

SanitizerInputs == Concatenations(MaxPieces)

\* The variables of the operations a specification does not exercise.
AggIdle ==
    /\ weather_data = <<>>
    /\ has_ai = FALSE
    /\ last_call = [method |-> "none"]
    /\ result = [kind |-> "pending"]
    /\ calls = <<>>
    /\ prompt = None
ThemeIdle ==
    /\ current_weather = None
    /\ current_hour = 0
    /\ theme = Pending
SanIdle ==
    /\ text = <<>>
    /\ sanitized = Pending
KalmanIdle == kalman = <<>>
SmoothingIdle == smoothing = <<>>
ParticleIdle == particle = <<>>
FilterIdle == KalmanIdle /\ SmoothingIdle /\ ParticleIdle
TasksIdle == tasks = <<>>

InitSanitize ==
    /\ text \in SanitizerInputs
    /\ sanitized = Pending
    /\ AggIdle
    /\ ThemeIdle
    /\ FilterIdle
    /\ TasksIdle

\* one call of _sanitize_prompt_input(text)
SanitizePromptInput ==
    /\ sanitized = Pending
    /\ sanitized' = Some(_sanitize_prompt_input(text))
    /\ UNCHANGED <<text, aggVars, themeVars, filterVars, tasks>>

NextSanitize == SanitizePromptInput

SpecSanitize == InitSanitize /\ [][NextSanitize]_vars

---------------------------------------------------------------------------
(* Claims about _sanitize_prompt_input                                     *)

NoLeadingTrailingRepeatedWhitespace(s) ==
    /\ \A i \in 1..Len(s) : s[i] \in Whitespace => s[i] = " "
    /\ s # <<>> => (s[1] # " " /\ s[Len(s)] # " ")
    /\ \A i \in 1..(Len(s) - 1) : ~(s[i] = " " /\ s[i + 1] = " ")

NoBlacklistedToken(s) == \A k \in 1..Len(blacklist) : ~Contains(s, blacklist[k])

\* C9: for every input, the sanitizer's output is at most 200 characters
\* long, contains none of the role-delimiter tokens System:, User:,
\* Assistant:, three single quotes or three double quotes, and has no
\* leading, trailing or repeated whitespace.
C9_SanitizedIsClean ==
    sanitized # Pending =>
        /\ Len(Val(sanitized)) <= 200
        /\ NoBlacklistedToken(Val(sanitized))
        /\ NoLeadingTrailingRepeatedWhitespace(Val(sanitized))

\* The parts of C9 that do not mention the tokens.
SanitizedLengthAndWhitespace ==
    sanitized # Pending =>
        /\ Len(Val(sanitized)) <= 200
        /\ NoLeadingTrailingRepeatedWhitespace(Val(sanitized))

---------------------------------------------------------------------------
(* WeatherAggregator.get_ambient_theme                                     *)
(* current_weather is a CurrentWeather: temperature is a number, the       *)
(* other fields are Optional; the classifier's arguments are whole numbers.*)

\* `x or 0` for an Optional number
OrZero(o) == IF IsNone(o) THEN 0 ELSE Val(o)
\* `x or ''` for an Optional text
OrEmpty(o) == IF IsNone(o) THEN <<>> ELSE Val(o)

sand == <<"s","a","n","d">>
dust == <<"d","u","s","t">>

ThemeDict(name, gradient, effect) ==
    [theme |-> name, gradient |-> gradient, effect |-> effect]

get_ambient_theme(cw, hour) ==
    LET is_night == hour < 6 \/ hour > 20
        is_sunrise == 5 <= hour /\ hour <= 7
        is_sunset == 18 <= hour /\ hour <= 20
        weather_code == OrZero(cw.weather_code)
        cloud_cover == OrZero(cw.cloud_cover)
        description == OrEmpty(cw.weather_description)
        wind_speed == OrZero(cw.wind_speed)
        temp == cw.temperature
        wind == cw.wind_speed
    IN
    IF weather_code \in {96, 99}
    THEN ThemeDict("hail", <<"#606c88", "#3f4c6b", "#BDBBBE">>, None)
    ELSE IF \/ weather_code \in {30, 31, 32, 33, 34, 35}
            \/ Contains(Lower(description), sand)
            \/ Contains(Lower(description), dust)
    THEN ThemeDict("sandstorm", <<"#c9aa88", "#e4d5b7", "#d6cebf">>, None)
    ELSE IF weather_code \in {71, 73, 75, 77, 85, 86} /\ wind_speed >= 50
    THEN ThemeDict("blizzard", <<"#cfd9df", "#e2ebf0", "#fdfbfb">>, None)
    ELSE IF weather_code >= 95
    THEN ThemeDict("storm", <<"#1a0a2e", "#16213e", "#0f0f0f">>, Some("lightning"))
    ELSE IF temp >= 32
    THEN ThemeDict("extreme_heat", <<"#ff4e50", "#f9d423", "#ff9a9e">>, None)
    ELSE IF temp <= -15
    THEN ThemeDict("extreme_cold", <<"#00c6ff", "#0072ff", "#a1c4fd">>, None)
    ELSE IF ~IsNone(wind) /\ Val(wind) >= 40
    THEN ThemeDict("wind", <<"#4CA1AF", "#C4E0E5", "#2C3E50">>, None)
    ELSE IF weather_code \in {45, 48}
    THEN IF is_night
         THEN ThemeDict("fog_night", <<"#0f2027", "#203a43", "#2c5364">>, None)
         ELSE ThemeDict("fog", <<"#B0BEC5", "#CFD8DC", "#ECEFF1">>, None)
    ELSE IF \/ (51 <= weather_code /\ weather_code <= 67)
            \/ (80 <= weather_code /\ weather_code <= 82)
    THEN IF is_night
         THEN ThemeDict("rain_night", <<"#000046", "#1CB5E0", "#000851">>, None)
         ELSE ThemeDict("rain", <<"#4a6fa5", "#6b8cae", "#8fa8c2">>, None)
    ELSE IF \/ (71 <= weather_code /\ weather_code <= 77)
            \/ (85 <= weather_code /\ weather_code <= 86)
    THEN IF is_night
         THEN ThemeDict("snow_night", <<"#1e3c72", "#2a5298", "#2c5364">>, None)
         ELSE ThemeDict("snow", <<"#e8f4f8", "#d4e8ed", "#b8d4e3">>, None)
    ELSE IF weather_code \in {2, 3} \/ cloud_cover >= 70
    THEN IF is_night
         THEN ThemeDict("cloudy_night", <<"#2c3e50", "#34495e", "#1a1a2e">>, None)
         ELSE ThemeDict("cloudy", <<"#8e9eab", "#c5d5e4", "#eef2f3">>, None)
    ELSE IF is_sunrise /\ weather_code <= 1
    THEN ThemeDict("sunrise", <<"#ff9a9e", "#fecfef", "#ffd89b">>, None)
    ELSE IF is_sunset /\ weather_code <= 1
    THEN ThemeDict("sunset", <<"#fa709a", "#fee140", "#642b73">>, None)
    ELSE IF is_night
    THEN IF cloud_cover > 50
         THEN ThemeDict("cloudy_night", <<"#2c3e50", "#34495e", "#1a1a2e">>, None)
         ELSE ThemeDict("clear_night", <<"#0f0c29", "#302b63", "#24243e">>, Some("stars"))
    ELSE ThemeDict("sunny", <<"#f6d365", "#fda085", "#ffecd2">>, None)

\* Arguments of the classifier: the weather codes on both sides of every
\* range the rules test, the thresholds of temperature, wind and cloud
\* cover and their neighbours, and descriptions with and without sand/dust.
ThemeCodes ==
    {None} \cup {Some(c) : c \in {0, 1, 2, 3, 4, 29, 30, 31, 32, 33, 34, 35, 36,
                                  44, 45, 48, 50, 51, 60, 67, 68, 70,
                                  71, 72, 73, 74, 75, 76, 77, 78,
                                  79, 80, 82, 83, 84, 85, 86, 87,
                                  94, 95, 96, 97, 98, 99, 100}}
ThemeTemperatures == {-15, -14, 31, 32}
ThemeWinds == {None, Some(39), Some(40), Some(49), Some(50)}
ThemeClouds == {None, Some(50), Some(51), Some(69), Some(70)}
ThemeDescriptions ==
    {None, Some(<<"C","l","e","a","r">>),
     Some(<<"H","e","a","v","y"," ","s","a","n","d","s","t","o","r","m">>),
     Some(<<"D","U","S","T">>)}
Hours == 0..23

ThemeInputs ==
    [temperature : ThemeTemperatures, weather_code : ThemeCodes,
     wind_speed : ThemeWinds, cloud_cover : ThemeClouds,
     weather_description : ThemeDescriptions]

InitTheme ==
    /\ current_weather \in {Some(cw) : cw \in ThemeInputs}
    /\ current_hour = 0
    /\ theme = Pending
    /\ AggIdle
    /\ SanIdle
    /\ FilterIdle
    /\ TasksIdle

\* one call of get_ambient_theme(current_weather, astronomy, current_hour)
GetAmbientTheme ==
    /\ theme = Pending
    /\ \E hour \in Hours :
        /\ current_hour' = hour
        /\ theme' = Some(get_ambient_theme(Val(current_weather), hour))
    /\ UNCHANGED <<current_weather, aggVars, sanVars, filterVars, tasks>>

NextTheme == GetAmbientTheme

SpecTheme == InitTheme /\ [][NextTheme]_vars

---------------------------------------------------------------------------
(* Claims about get_ambient_theme                                          *)

\* The snow codes: every code in 71-77 and 85-86.
SnowCodes == (71..77) \cup (85..86)
\* The codes the blizzard branch of the code lists.
BlizzardListCodes == {71, 73, 75, 77, 85, 86}

MentionsSandOrDust(cw) ==
    LET d == Lower(OrEmpty(cw.weather_description))
    IN  Contains(d, sand) \/ Contains(d, dust)

IsNightHour(hour) == hour < 6 \/ hour > 20

\* Rule i of the 14-rule priority list matches; blizzardCodes is the set
\* of snow codes rule 3 uses.
RuleMatches(i, cw, hour, blizzardCodes) ==
    LET code == OrZero(cw.weather_code)
        windv == OrZero(cw.wind_speed)
        cloud == OrZero(cw.cloud_cover)
    IN  CASE i = 1 -> code \in {96, 99}
          [] i = 2 -> code \in 30..35 \/ MentionsSandOrDust(cw)
          [] i = 3 -> code \in blizzardCodes /\ windv >= 50
          [] i = 4 -> code >= 95
          [] i = 5 -> cw.temperature >= 32
          [] i = 6 -> cw.temperature <= -15
          [] i = 7 -> windv >= 40
          [] i = 8 -> code \in {45, 48}
          [] i = 9 -> code \in (51..67) \cup (80..82)
          [] i = 10 -> code \in SnowCodes
          [] i = 11 -> code \in {2, 3} \/ cloud >= 70
          [] i = 12 -> code <= 1 /\ hour \in (5..7) \cup (18..20)
          [] i = 13 -> IsNightHour(hour)
          [] i = 14 -> TRUE

\* The theme and effect rule i gives.
RuleTheme(i, cw, hour) ==
    LET night == IsNightHour(hour)
        day(a, b) == IF night THEN b ELSE a
    IN  CASE i = 1 -> <<"hail", None>>
          [] i = 2 -> <<"sandstorm", None>>
          [] i = 3 -> <<"blizzard", None>>
          [] i = 4 -> <<"storm", Some("lightning")>>
          [] i = 5 -> <<"extreme_heat", None>>
          [] i = 6 -> <<"extreme_cold", None>>
          [] i = 7 -> <<"wind", None>>
          [] i = 8 -> <<day("fog", "fog_night"), None>>
          [] i = 9 -> <<day("rain", "rain_night"), None>>
          [] i = 10 -> <<day("snow", "snow_night"), None>>
          [] i = 11 -> <<day("cloudy", "cloudy_night"), None>>
          [] i = 12 -> <<IF hour \in 5..7 THEN "sunrise" ELSE "sunset", None>>
          [] i = 13 -> IF OrZero(cw.cloud_cover) > 50
                       THEN <<"cloudy_night", None>>
                       ELSE <<"clear_night", Some("stars")>>
          [] i = 14 -> <<"sunny", None>>

FirstMatch(cw, hour, blizzardCodes) ==
    LET i == CHOOSE k \in 1..14 :
                 /\ RuleMatches(k, cw, hour, blizzardCodes)
                 /\ \A j \in 1..(k - 1) : ~RuleMatches(j, cw, hour, blizzardCodes)
    IN  RuleTheme(i, cw, hour)

Returned(t) == <<t.theme, t.effect>>

\* C7: for every combination of weather code, cloud cover, wind speed,
\* temperature, description and hour the classifier returns the theme of
\* the first matching rule of the 14-rule order, the snow codes of rules 3
\* and 10 being the same set.
C7_ThemeIsFirstMatchingRule ==
    theme # Pending =>
        Returned(Val(theme)) = FirstMatch(Val(current_weather), current_hour, SnowCodes)

\* The part of C7 about hail: codes 96 and 99 give hail whatever the
\* temperature, wind, description or hour.
HailWhateverElse ==
    (theme # Pending /\ OrZero(Val(current_weather).weather_code) \in {96, 99})
        => Val(theme).theme = "hail"

\* The classifier follows the 14-rule order when rule 3 is read with the
\* six codes the blizzard branch lists.
ThemeIsFirstMatchingRuleWithBlizzardList ==
    theme # Pending =>
        Returned(Val(theme))
            = FirstMatch(Val(current_weather), current_hour, BlizzardListCodes)

\* C8: every snow code (71-77, 85-86) with wind speed >= 50 and no sand or
\* dust description gives blizzard, at any hour and any temperature.
C8_SnowCodeWithHighWindIsBlizzard ==
    (/\ theme # Pending
     /\ OrZero(Val(current_weather).weather_code) \in SnowCodes
     /\ OrZero(Val(current_weather).wind_speed) >= 50
     /\ ~MentionsSandOrDust(Val(current_weather)))
        => Val(theme).theme = "blizzard"

---------------------------------------------------------------------------
(* WeatherAggregator._statistical_aggregate                                *)
(* A call of a method gives a record: outcome (the value returned or the   *)
(* exception raised), weather_data (the caller's list afterwards: the      *)
(* methods write to the objects in it), calls (the collaborators invoked,  *)
(* in order) and prompt (the prompt built, if any).                        *)

Return(value) == [kind |-> "return", value |-> value]
Raise(error) == [kind |-> "raise", error |-> error]
After(outcome, wd, called, builtPrompt) ==
    [outcome |-> outcome, weather_data |-> wd, calls |-> called, prompt |-> builtPrompt]

\* the labels of the snapshots that carry a current state only
Providers_contributing(wd) ==
    MapSeq(SelectSeq(wd, LAMBDA w : ~IsNone(w.current)), LAMBDA w : w.provider)

\* [wd.provider for wd in weather_data]
Providers(wd) == MapSeq(wd, LAMBDA w : w.provider)

\* the local median(values): None for an empty list
median(values) ==
    Let(values, LAMBDA v : IF v = <<>> THEN PyNone ELSE PyFloat(MedianOf(v)))

\* median() of ints: the middle int, or the float (a + b) / 2
median_int(values) ==
    Let(values, LAMBDA v :
        IF v = <<>> THEN PyNone
        ELSE IF Len(v) % 2 = 1 THEN PyInt(MedianOf(MapSeq(v, F)).n)
        ELSE PyFloat(MedianOf(MapSeq(v, F))))

\* the summary of the statistical path in the requested language
StatisticalSummary(language, n) ==
    IF language = "cs"
    THEN <<"Agregovano z ", Digits[n + 1], " zdroju pomoci Kalmanova filtru a EWMA vyhlazovani.">>
    ELSE <<"Aggregated from ", Digits[n + 1], " sources using Kalman Filter & EWMA smoothing.">>

\* The EWMA smoothing of the base source's hourly curve, written back into
\* the HourlyForecast objects of weather_data[0].
SmoothedHourly(base_hourly) ==
    LET temp_curve == MapSeq(base_hourly, LAMBDA h : Some(h.temperature))
    IN  Let(EWMA_smooth_array(EWMA(Rat(4, 10)), temp_curve), LAMBDA smoothed_temps :
            [i \in 1..Len(base_hourly) |->
                [base_hourly[i] EXCEPT !.temperature = smoothed_temps[i]]])

\* max(temps) - min(temps)
Spread(temps) ==
    LET n == Len(temps)
    IN  RSub(SortedAt(temps, n - 1), SortedAt(temps, 0))

\* A confidence that follows the agreement of the sources: 0.95 below a
\* spread of 2 degrees, 0.85 below 5, 0.70 otherwise.
SpreadConfidence(temps) ==
    IF temps = <<>> THEN Rat(70, 100)
    ELSE Let(Spread(temps), LAMBDA spread :
             IF RLt(spread, F(2)) THEN Rat(95, 100)
             ELSE IF RLt(spread, F(5)) THEN Rat(85, 100)
             ELSE Rat(70, 100))

\* The confidence_score of the statistical path: the literal 0.85, which
\* takes no account of the temperatures collected.
StatisticalConfidence(temps) == Rat(85, 100)

\* The lists _statistical_aggregate collects from the snapshots.
Collected(weather_data_) ==
    LET has(w) == ~IsNone(w.current)
        cur(w) == Val(w.current)
    IN  [temps |-> MapSeq(SelectSeq(weather_data_, has), LAMBDA w : cur(w).temperature),
         wind_speeds |->
             MapSeq(SelectSeq(weather_data_,
                              LAMBDA w : has(w) /\ ~IsNone(cur(w).wind_speed)),
                    LAMBDA w : Val(cur(w).wind_speed)),
         pressures |->
             MapSeq(SelectSeq(weather_data_,
                              LAMBDA w : has(w) /\ ~IsNone(cur(w).pressure)),
                    LAMBDA w : Val(cur(w).pressure)),
         humidities |->
             MapSeq(SelectSeq(weather_data_,
                              LAMBDA w : has(w) /\ ~IsNone(cur(w).humidity)),
                    LAMBDA w : Val(cur(w).humidity)),
         \* `if wd.current and wd.current.feels_like`: None and 0.0 are falsy
         feels_likes |->
             MapSeq(SelectSeq(weather_data_,
                              LAMBDA w : /\ has(w)
                                         /\ ~IsNone(cur(w).feels_like)
                                         /\ Val(cur(w).feels_like) # F(0)),
                    LAMBDA w : Val(cur(w).feels_like))]

\* the latest snapshot that has a current state, the first one if none has
Primary_latest(weather_data_) ==
    IF IsNone(weather_data_[Len(weather_data_)].current) THEN weather_data_[1]
    ELSE weather_data_[Len(weather_data_)]

\* weather_data[0], the snapshot the fields that are not fused are read from
Primary(weather_data_) == weather_data_[1]

\* kf.fuse(values) whatever the list holds: 0.0 for the empty list
FusedAlways(kf, values, first_value) ==
    PyFloat(Kalman_fuse(kf, MapSeq(values, Some), None).value)

\* `kf.fuse(values) if values else weather_data[0].current.<field>`
FusedOrFirst(kf, values, first_value) ==
    IF values # <<>> THEN PyFloat(Kalman_fuse(kf, MapSeq(values, Some), None).value)
    ELSE first_value

_statistical_aggregate(weather_data_, language) ==
    Let(Collected(weather_data_), LAMBDA c :
    LET location == weather_data_[1].location
        sources == Providers(weather_data_)
        kf_temp == KalmanFilter1D(Rat(1, 10), F(2))
        kf_wind == KalmanFilter1D(Rat(5, 10), F(3))
        kf_pressure == KalmanFilter1D(Rat(1, 10), F(1))
        \* weather_data[0].current is None: reading a field of it raises
        noFirst == IsNone(weather_data_[1].current)
        first == Val(Primary(weather_data_).current)
        callsTemp == IF c.temps # <<>> THEN <<"KalmanFilter1D.fuse">> ELSE <<>>
        callsWind == IF c.wind_speeds # <<>> THEN <<"KalmanFilter1D.fuse">> ELSE <<>>
        callsPressure == IF c.pressures # <<>> THEN <<"KalmanFilter1D.fuse">> ELSE <<>>
        fused == callsTemp \o callsWind \o callsPressure
    IN
    IF c.temps = <<>> /\ noFirst
    THEN After(Raise("AttributeError"), weather_data_, <<>>, None)
    ELSE IF c.wind_speeds = <<>> /\ noFirst
    THEN After(Raise("AttributeError"), weather_data_, callsTemp, None)
    ELSE IF c.pressures = <<>> /\ noFirst
    THEN After(Raise("AttributeError"), weather_data_, callsTemp \o callsWind, None)
    ELSE IF noFirst
    THEN After(Raise("AttributeError"), weather_data_, fused, None)
    ELSE
    Let(CurrentWeather(
            [temperature |-> FusedOrFirst(kf_temp, c.temps, PyFloat(first.temperature)),
             feels_like |-> median(c.feels_likes),
             humidity |-> median_int(c.humidities),
             wind_speed |-> FusedOrFirst(kf_wind, c.wind_speeds,
                                         PyOptFloat(first.wind_speed)),
             weather_code |-> PyOptInt(first.weather_code),
             weather_description |-> PyOptStr(first.weather_description),
             uv_index |-> PyOptFloat(first.uv_index),
             pressure |-> FusedOrFirst(kf_pressure, c.pressures,
                                       PyOptFloat(first.pressure)),
             cloud_cover |-> PyOptInt(first.cloud_cover)]),
        LAMBDA aggregated_current :
    IF ~aggregated_current.ok
    THEN After(Raise("ValidationError"), weather_data_, fused, None)
    ELSE
    LET base_hourly == weather_data_[1].hourly_forecast
        callsSmooth == IF base_hourly # <<>> THEN <<"EWMA.smooth_array">> ELSE <<>>
    IN
    Let(IF base_hourly # <<>> THEN SmoothedHourly(base_hourly) ELSE base_hourly,
        LAMBDA smoothed :
    Let2([weather_data_ EXCEPT ![1].hourly_forecast = smoothed],
         AggregatedForecast(
             [location |-> location,
              current |-> Some(aggregated_current.v),
              daily_forecast |-> weather_data_[1].daily_forecast,
              hourly_forecast |-> smoothed,
              astronomy |-> weather_data_[1].astronomy,
              ai_summary |-> PyStr(StatisticalSummary(language, Len(sources))),
              confidence_score |-> PyFloat(StatisticalConfidence(c.temps)),
              sources_used |-> sources]),
         LAMBDA written, forecast :
    IF ~forecast.ok
    THEN After(Raise("ValidationError"), written, fused \o callsSmooth, None)
    ELSE After(Return(forecast.v), written, fused \o callsSmooth, None)))))

---------------------------------------------------------------------------
(* WeatherAggregator._ai_aggregate                                         *)
(* ai is what the AI collaborator does with the request:                   *)
(*   [kind |-> "raise", error |-> e]   the call raises an Exception        *)
(*   [kind |-> "cancelled"]            the task is cancelled while waiting *)
(*   [kind |-> "response", content |-> c], c one of                        *)
(*       [form |-> "empty"]            content is None or ""               *)
(*       [form |-> "invalid"]          content is not JSON                 *)
(*       [form |-> "json", value |-> v]  content is the JSON value v       *)

\* dict.get(key, default)
Get(d, key, default) == IF key \in DOMAIN d THEN d[key] ELSE default

LanguageInstruction(language) ==
    IF language = "cs" THEN "Odpovez v cestine." ELSE "Respond in English."

\* The prompts: the values the f-strings place in system_prompt and
\* user_prompt, field by field.
BuildPrompt(weather_data_, language) ==
    LET withCurrent == SelectSeq(weather_data_, LAMBDA w : ~IsNone(w.current))
    IN  [language_instruction |-> LanguageInstruction(language),
         location |-> _sanitize_prompt_input(weather_data_[1].location.name),
         sources |-> Len(weather_data_),
         context |-> MapSeq(withCurrent, LAMBDA w :
             [provider |-> Upper(w.provider),
              temperature |-> Val(w.current).temperature,
              feels_like |-> Val(w.current).feels_like,
              humidity |-> Val(w.current).humidity,
              wind_speed |-> Val(w.current).wind_speed,
              conditions |-> Val(w.current).weather_description])]

_ai_aggregate(weather_data_, language, ai) ==
    LET location == weather_data_[1].location
        sources == Providers(weather_data_)
        builtPrompt == Some(BuildPrompt(weather_data_, language))
        requested == <<"_sanitize_prompt_input", "chat.completions.create">>
        \* except Exception: return await self._statistical_aggregate(...)
        fallback ==
            Let(_statistical_aggregate(weather_data_, language), LAMBDA st :
                After(st.outcome, st.weather_data,
                      requested \o <<"_statistical_aggregate">> \o st.calls, builtPrompt))
    IN
    IF ai.kind = "cancelled"
    THEN After(Raise("CancelledError"), weather_data_, requested, builtPrompt)
    ELSE IF ai.kind = "raise" THEN fallback
    ELSE IF ai.content.form # "json" THEN fallback
    ELSE IF ai.content.value.t # "dict" THEN fallback
    ELSE IF IsNone(weather_data_[1].current) THEN fallback
    ELSE
    LET result_ == ai.content.value.d
        first == Val(weather_data_[1].current)
    IN
    Let(CurrentWeather(
            [temperature |-> Get(result_, "temperature", PyFloat(first.temperature)),
             feels_like |-> Get(result_, "feels_like", PyNone),
             humidity |-> Get(result_, "humidity", PyNone),
             wind_speed |-> Get(result_, "wind_speed", PyNone),
             weather_description |->
                 Get(result_, "conditions", PyOptStr(first.weather_description)),
             weather_code |-> PyOptInt(first.weather_code),
             uv_index |-> PyOptFloat(first.uv_index),
             pressure |-> PyOptFloat(first.pressure),
             cloud_cover |-> PyOptInt(first.cloud_cover)]),
        LAMBDA aggregated_current :
    IF ~aggregated_current.ok THEN fallback
    ELSE
    Let(AggregatedForecast(
            [location |-> location,
             current |-> Some(aggregated_current.v),
             daily_forecast |-> weather_data_[1].daily_forecast,
             hourly_forecast |-> weather_data_[1].hourly_forecast,
             astronomy |-> weather_data_[1].astronomy,
             ai_summary |->
                 Get(result_, "reasoning", PyStr(<<"AI aggregation complete">>)),
             confidence_score |-> Get(result_, "confidence", PyFloat(Rat(85, 100))),
             sources_used |-> sources]),
        LAMBDA forecast :
    IF ~forecast.ok THEN fallback
    ELSE After(Return(forecast.v), weather_data_, requested, builtPrompt)))

---------------------------------------------------------------------------
(* WeatherAggregator.aggregate                                             *)
(* astro is what src.astro_calc.get_astronomy_data does: it raises, or it  *)
(* returns the dict astro.v.                                               *)

\* obj.name for an Astronomy object: the attribute exists only for a field
\* the model declares.
HasAttr(obj, name) == name \in DOMAIN obj

\* truthiness of an Optional text or number
TruthyText(o) == ~IsNone(o) /\ Val(o) # <<>>
TruthyNumber(o) == ~IsNone(o) /\ Val(o) # 0

\* The fields the backfill reads and writes, in the order of its
\* statements.
BackfillOrder == <<"moonrise", "moonset", "moon_phase", "moon_illumination",
                   "daylight_duration", "moon_distance", "next_full_moon">>

\* The astronomy block after the first k statements of the backfill.
Backfilled(base_astro, calc_data, k) ==
    [f \in DOMAIN base_astro |->
        IF \E j \in 1..k : BackfillOrder[j] = f
        THEN CASE f \in {"moonrise", "moonset", "next_full_moon"} ->
                      IF ~TruthyText(base_astro[f])
                      THEN Get(calc_data, f, None) ELSE base_astro[f]
               [] f \in {"moon_phase", "moon_illumination"} ->
                      IF IsNone(base_astro[f])
                      THEN Get(calc_data, f, None) ELSE base_astro[f]
               [] OTHER ->
                      IF ~TruthyNumber(base_astro[f])
                      THEN Get(calc_data, f, None) ELSE base_astro[f]
        ELSE base_astro[f]]

\* aggregate from the astronomy backfill on: weather_data is not empty.
aggregate_sources(self_has_ai, weather_data_, user_language, ai, astro) ==
    LET given == weather_data_[1].astronomy
        base_astro == IF IsNone(given) THEN Astronomy ELSE Val(given)
        has(f) == HasAttr(base_astro, f)
        \* `needs_calc = not (a.moonrise and a.moonset and ...)`, outside the
        \* try: the chain reads on while the values are truthy, and reading
        \* an attribute the object does not have raises
        unreadable ==
            \/ ~has("moonrise")
            \/ /\ TruthyText(base_astro.moonrise)
               /\ \/ ~has("moonset")
                  \/ /\ TruthyText(base_astro.moonset)
                     /\ \/ ~has("moon_phase")
                        \/ /\ ~IsNone(base_astro.moon_phase)
                           /\ \/ ~has("moon_illumination")
                              \/ /\ ~IsNone(base_astro.moon_illumination)
                                 /\ ~has("daylight_duration")
    IN
    IF unreadable
    THEN After(Raise("AttributeError"), weather_data_, <<>>, None)
    ELSE
    LET needs_calc == ~(/\ TruthyText(base_astro.moonrise)
                        /\ TruthyText(base_astro.moonset)
                        /\ ~IsNone(base_astro.moon_phase)
                        /\ ~IsNone(base_astro.moon_illumination)
                        /\ TruthyNumber(base_astro.daylight_duration))
        callsAstro == IF needs_calc THEN <<"get_astronomy_data">> ELSE <<>>
        \* inside the try: the statements run until one touches an
        \* attribute the object does not have
        done == IF astro.kind # "dict" THEN 0
                ELSE Cardinality({k \in 1..Len(BackfillOrder) :
                                    \A j \in 1..k : has(BackfillOrder[j])})
        written == Backfilled(base_astro, astro.v, done)
        filled ==
            IF ~needs_calc \/ astro.kind # "dict" THEN weather_data_
            ELSE IF done = Len(BackfillOrder) \/ ~IsNone(given)
            THEN [weather_data_ EXCEPT ![1].astronomy = Some(written)]
            ELSE weather_data_
        location == filled[1].location
        sources == Providers(filled)
        Then(returned) ==
            Let(returned, LAMBDA r :
                After(r.outcome, r.weather_data, callsAstro \o r.calls, r.prompt))
    IN
    IF Len(filled) = 1
    THEN LET base == filled[1]
             forecast ==
                 AggregatedForecast([location |-> location,
                                     current |-> base.current,
                                     daily_forecast |-> base.daily_forecast,
                                     hourly_forecast |-> base.hourly_forecast,
                                     astronomy |-> base.astronomy,
                                     ai_summary |-> PyNone,
                                     confidence_score |-> PyFloat(Rat(75, 100)),
                                     sources_used |-> sources])
         IN  IF forecast.ok
             THEN After(Return(forecast.v), filled, callsAstro, None)
             ELSE After(Raise("ValidationError"), filled, callsAstro, None)
    ELSE IF self_has_ai
    THEN Then(_ai_aggregate(filled, user_language, ai))
    ELSE Then(_statistical_aggregate(filled, user_language))

\* aggregate with the emptiness test missing: weather_data[0] raises.
aggregate_unchecked(self_has_ai, weather_data_, user_language, ai, astro) ==
    IF weather_data_ = <<>>
    THEN After(Raise("IndexError"), weather_data_, <<>>, None)
    ELSE aggregate_sources(self_has_ai, weather_data_, user_language, ai, astro)

\* WeatherAggregator.aggregate
aggregate(self_has_ai, weather_data_, user_language, ai, astro) ==
    IF weather_data_ = <<>>
    THEN After(Raise("ValueError"), weather_data_, <<>>, None)
    ELSE aggregate_sources(self_has_ai, weather_data_, user_language, ai, astro)

---------------------------------------------------------------------------
(* The aggregator's inputs.                                                *)

\* the most snapshots a request aggregates
MaxSources == 3

\* provider labels (short for open_meteo, weatherapi, met_norway,
\* bright_sky, visualcrossing), by position in the list
ProviderLabels == << <<"o","m">>, <<"w","a">>, <<"m","n">>, <<"b","s">>, <<"v","c">> >>

CleanName == <<"B","r","n","o">>
InjectedName == <<"B","r","n","o"," "," ","S","y","s","t","e","m",":"," ","x">>
Place(name) == [name |-> name, latitude |-> Rat(492, 10), longitude |-> Rat(166, 10)]

BaseCurrent ==
    [temperature |-> F(20), feels_like |-> Some(F(19)), humidity |-> Some(50),
     wind_speed |-> Some(F(10)), wind_direction |-> Some(180),
     weather_code |-> Some(61), weather_description |-> Some(<<"R","a","i","n">>),
     uv_index |-> Some(F(3)), visibility |-> Some(F(10)),
     pressure |-> Some(F(1013)), cloud_cover |-> Some(80)]

\* Current states: agreeing and disagreeing temperatures and winds, a
\* feels-like of 0.0, humidities whose mean is fractional, absent optional
\* fields, and a description that carries role-delimiter tokens.
Currents ==
    {BaseCurrent,
     [BaseCurrent EXCEPT !.temperature = Rat(205, 10), !.wind_speed = Some(F(12))],
     [BaseCurrent EXCEPT !.temperature = Rat(198, 10), !.wind_speed = Some(F(9))],
     [BaseCurrent EXCEPT !.temperature = F(26), !.wind_speed = None],
     [BaseCurrent EXCEPT !.humidity = Some(53), !.feels_like = Some(F(0)),
                         !.pressure = None, !.weather_code = Some(3),
                         !.weather_description =
                             Some(<<"U","s","e","r",":"," "," ","h","i">>)],
     [BaseCurrent EXCEPT !.humidity = None, !.feels_like = None,
                         !.pressure = Some(F(1020)), !.weather_code = None,
                         !.weather_description = None, !.uv_index = None,
                         !.cloud_cover = None]}

OptionalCurrents == {None} \cup {Some(c) : c \in Currents}

\* what the snapshots after the first report
OtherCurrents ==
    {None} \cup {Some(c) : c \in {d \in Currents :
                                    /\ d.humidity # None
                                    /\ d.temperature # F(20)}}

Daily == <<[date |-> "2026-01-01", temperature_max |-> F(22), temperature_min |-> F(11)]>>
Hourly == <<[time |-> "00:00", temperature |-> F(15)],
            [time |-> "01:00", temperature |-> Rat(175, 10)],
            [time |-> "02:00", temperature |-> F(15)]>>
OtherHourly == <<[time |-> "00:00", temperature |-> F(12)]>>
SomeAstronomy ==
    [sunrise |-> Some(<<"0","6",":","0","0">>), sunset |-> Some(<<"1","8",":","0","0">>),
     moon_phase |-> Some(Rat(1, 2)), moon_phase_name |-> Some(<<"F","u","l","l">>)]

\* The first snapshot: its location, hourly curve and astronomy block are
\* the ones aggregate reads.
FirstSnapshots ==
    {[provider |-> ProviderLabels[1], location |-> Place(x[1]), current |-> c,
      daily_forecast |-> Daily, hourly_forecast |-> x[2], astronomy |-> x[3]] :
        c \in OptionalCurrents,
        x \in {<<CleanName, <<>>, None>>,
               <<CleanName, Hourly, None>>,
               <<CleanName, <<>>, Some(SomeAstronomy)>>,
               <<InjectedName, Hourly, Some(SomeAstronomy)>>}}

OtherSnapshot(i, c) ==
    [provider |-> ProviderLabels[i], location |-> Place(CleanName), current |-> c,
     daily_forecast |-> <<>>, hourly_forecast |-> OtherHourly, astronomy |-> None]

\* every list of n >= 1 snapshots
ListsOf(n) ==
    {[i \in 1..n |-> IF i = 1 THEN first ELSE OtherSnapshot(i, rest[i])] :
        first \in FirstSnapshots, rest \in [2..n -> OtherCurrents]}

WeatherLists == {<<>>} \cup UNION {ListsOf(n) : n \in 1..MaxSources}

Languages == {"en", "cs"}

\* A well-formed answer of the AI, and answers that differ from it in one
\* key: the key missing, null, or of another type or range.
GoodAnswer ==
    [temperature |-> PyFloat(Rat(203, 10)), feels_like |-> PyFloat(Rat(195, 10)),
     humidity |-> PyInt(55), wind_speed |-> PyFloat(F(11)),
     conditions |-> PyStr(<<"M","i","l","d">>),
     confidence |-> PyFloat(Rat(9, 10)), reasoning |-> PyStr(<<"o","k">>)]

Without(d, key) == [k \in DOMAIN d \ {key} |-> d[k]]

AiAnswers ==
    {GoodAnswer}
    \cup {Without(GoodAnswer, k) : k \in DOMAIN GoodAnswer}
    \cup {[GoodAnswer EXCEPT ![k] = PyNone] : k \in DOMAIN GoodAnswer}
    \cup {[GoodAnswer EXCEPT !.confidence = v] :
            v \in {PyFloat(F(0)), PyFloat(F(1)), PyFloat(Rat(15, 10)),
                   PyFloat(Rat(-1, 10)), PyInt(5), PyStr(<<"2">>),
                   PyStr(<<"h","i","g","h">>)}}
    \cup {[GoodAnswer EXCEPT !.temperature = PyStr(<<"w","a","r","m">>)],
          [GoodAnswer EXCEPT !.humidity = PyFloat(Rat(111, 2))],
          [GoodAnswer EXCEPT !.reasoning = PyInt(1)],
          [GoodAnswer EXCEPT !.conditions = PyList]}

AiOutcomes ==
    {[kind |-> "raise", error |-> "APITimeoutError"],
     [kind |-> "raise", error |-> "APIConnectionError"],
     [kind |-> "cancelled"],
     [kind |-> "response", content |-> [form |-> "empty"]],
     [kind |-> "response", content |-> [form |-> "invalid"]],
     [kind |-> "response", content |-> [form |-> "json", value |-> PyList]],
     [kind |-> "response", content |-> [form |-> "json", value |-> PyNone]]}
    \cup {[kind |-> "response", content |-> [form |-> "json", value |-> PyDict(d)]] :
            d \in AiAnswers}

\* what get_astronomy_data does
CalcData ==
    [moonrise |-> Some(<<"2","0",":","0","0">>), moonset |-> Some(<<"0","7",":","0","0">>),
     moon_illumination |-> Some(97), moon_phase |-> Some(Rat(1, 2)),
     daylight_duration |-> Some(43200), moon_distance |-> Some(384400),
     next_full_moon |-> Some(<<"2","0","2","6">>)]
AstroOutcomes == {[kind |-> "raise"], [kind |-> "dict", v |-> CalcData]}

---------------------------------------------------------------------------
(* The aggregator: one request.                                            *)

Init ==
    /\ weather_data \in WeatherLists
    /\ has_ai \in BOOLEAN
    /\ last_call = [method |-> "none"]
    /\ result = [kind |-> "pending"]
    /\ calls = <<>>
    /\ prompt = None
    /\ ThemeIdle
    /\ SanIdle
    /\ FilterIdle
    /\ TasksIdle

Finish(method, args, r) ==
    /\ last_call' = [method |-> method, weather_data |-> weather_data, args |-> args]
    /\ weather_data' = r.weather_data
    /\ result' = r.outcome
    /\ calls' = r.calls
    /\ prompt' = r.prompt
    /\ UNCHANGED <<has_ai, themeVars, sanVars, filterVars, tasks>>

\* await aggregator.aggregate(weather_data, user_language)
Aggregate ==
    /\ result.kind = "pending"
    /\ \E user_language \in Languages, ai \in AiOutcomes, astro \in AstroOutcomes :
         \E r \in {aggregate(has_ai, weather_data, user_language, ai, astro)} :
             Finish("aggregate",
                    [user_language |-> user_language, ai |-> ai, astro |-> astro], r)

\* await aggregator._statistical_aggregate(weather_data, language), as
\* aggregate calls it: two or more snapshots
StatisticalAggregate ==
    /\ result.kind = "pending"
    /\ Len(weather_data) >= 2
    /\ \E language \in Languages :
         \E r \in {_statistical_aggregate(weather_data, language)} :
             Finish("_statistical_aggregate", [language |-> language], r)

\* await aggregator._ai_aggregate(weather_data, language), as aggregate
\* calls it: two or more snapshots and an AI client
AiAggregate ==
    /\ result.kind = "pending"
    /\ Len(weather_data) >= 2
    /\ has_ai
    /\ \E language \in Languages, ai \in AiOutcomes :
         \E r \in {_ai_aggregate(weather_data, language, ai)} :
             Finish("_ai_aggregate", [language |-> language, ai |-> ai], r)

Next == Aggregate \/ StatisticalAggregate \/ AiAggregate

Spec == Init /\ [][Next]_vars

---------------------------------------------------------------------------
(* Claims about the aggregator.                                            *)

Called(method) == last_call.method = method
Input == last_call.weather_data
Returns == result.kind = "return"
Raises(error) == result.kind = "raise" /\ result.error = error
FilterCalls == {"KalmanFilter1D.fuse", "EWMA.smooth_array"}
AiCalls == {"_sanitize_prompt_input", "chat.completions.create"}
Ran(labels) == \E i \in 1..Len(calls) : calls[i] \in labels

\* the AI call raises, returns empty content, or returns text that is not
\* JSON
AiFails(ai) ==
    IF ai.kind = "response" THEN ai.content.form \in {"empty", "invalid"}
    ELSE ai.kind = "raise"

\* C1: after aggregate on two or more snapshots with an AI strategy, a
\* failed AI call (raised error, empty content, text that is not JSON)
\* raises nothing and returns the statistical result: confidence 0.85 and
\* sources_used holding every input provider.
C1_AiFailureReturnsStatisticalResult ==
    (/\ Called("aggregate") /\ Len(Input) >= 2 /\ has_ai
     /\ AiFails(last_call.args.ai))
    => /\ Returns
       /\ result.value.confidence_score = Rat(85, 100)
       /\ result.value.sources_used = Providers(Input)

\* C2: for a list of exactly one snapshot aggregate returns a forecast
\* whose current state is the snapshot's, whose confidence is 0.75 and
\* whose summary is null, and runs no AI call and no filter.
C2_SingleSourcePassesThrough ==
    (Called("aggregate") /\ Len(Input) = 1)
    => /\ Returns
       /\ Some(result.value.current) = Input[1].current
       /\ result.value.confidence_score = Rat(75, 100)
       /\ result.value.ai_summary = None
       /\ ~Ran(FilterCalls \cup AiCalls)

\* C3: aggregate on an empty list raises ValueError before anything else:
\* no forecast, no astronomy backfill, no AI call, no filter, nothing
\* written.
C3_EmptyListRaisesValueError ==
    (Called("aggregate") /\ Input = <<>>)
    => /\ Raises("ValueError")
       /\ calls = <<>>
       /\ prompt = None
       /\ weather_data = Input

\* an aggregate call on the empty list has finished
C3_EmptyListAggregated ==
    /\ Called("aggregate") /\ Input = <<>>
    /\ result.kind # "pending"

\* C4: for every list of two or more snapshots, whatever its pattern of
\* null optional fields, _statistical_aggregate returns a forecast with a
\* confidence score and raises nothing.
C4_StatisticalPathAlwaysReturns ==
    Called("_statistical_aggregate")
    => /\ Returns
       /\ RLe(F(0), result.value.confidence_score)

\* C5: every forecast returned, on the single-source path, the statistical
\* path and the AI path (for any JSON object of the AI), has a
\* confidence_score in [0, 1].
C5_ConfidenceWithinUnitInterval ==
    Returns
    => /\ RLe(F(0), result.value.confidence_score)
       /\ RLe(result.value.confidence_score, F(1))

\* the temperatures of the snapshots that have a current state
InputTemps ==
    MapSeq(SelectSeq(Input, LAMBDA w : ~IsNone(w.current)),
           LAMBDA w : Val(w.current).temperature)
InputWinds ==
    MapSeq(SelectSeq(Input, LAMBDA w : ~IsNone(w.current)),
           LAMBDA w : Val(w.current).wind_speed)

C10_PromptTextIsSanitized ==
    (Called("_ai_aggregate") /\ ~IsNone(prompt))
    => LET p == Val(prompt)
           shown == SelectSeq(Input, LAMBDA w : ~IsNone(w.current))
       IN  /\ p.location = _sanitize_prompt_input(Input[1].location.name)
           /\ Len(p.context) = Len(shown)
           /\ \A i \in 1..Len(shown) :
                /\ p.context[i].provider =
                       Upper(_sanitize_prompt_input(shown[i].provider))
                /\ p.context[i].conditions =
                       MapSeq(Val(shown[i].current).weather_description,
                              _sanitize_prompt_input)

\* The keys of the response schema and the types the prompt asks for.
SchemaNumbers == {"temperature", "feels_like", "humidity", "wind_speed", "confidence"}
SchemaTexts == {"conditions", "reasoning"}

\* the AI's content is a JSON object holding every key of the schema, each
\* with a value of the key's type
SchemaValid(ai) ==
    /\ ai.kind = "response"
    /\ ai.content.form = "json"
    /\ ai.content.value.t = "dict"
    /\ LET d == ai.content.value.d
       IN  /\ DOMAIN d = SchemaNumbers \cup SchemaTexts
           /\ \A k \in SchemaNumbers : d[k].t \in {"float", "int"}
           /\ \A k \in SchemaTexts : d[k].t = "str"

\* the AI answered (the call neither raised nor was cancelled)
Answered(ai) == ai.kind = "response"

\* C11: when the AI's answer is empty or violates the response schema (a
\* missing key, a JSON value that is no object, a wrongly typed field) and
\* _ai_aggregate returns a forecast, that forecast is the one of the
\* statistical path, not one built from the answer.
C11_SchemaViolationFallsBack ==
    (/\ Called("_ai_aggregate") /\ Returns
     /\ Answered(last_call.args.ai) /\ ~SchemaValid(last_call.args.ai))
    => Ran({"_statistical_aggregate"})

\* C12: a call leaves every input snapshot as it was: the same hourly
\* temperatures and the same astronomy block as before the call.
C12_InputSnapshotsUnmodified ==
    result.kind # "pending"
    => /\ Len(weather_data) = Len(Input)
       /\ \A i \in 1..Len(Input) :
            /\ weather_data[i].astronomy = Input[i].astronomy
            /\ MapSeq(weather_data[i].hourly_forecast, LAMBDA h : h.temperature)
                   = MapSeq(Input[i].hourly_forecast, LAMBDA h : h.temperature)

---------------------------------------------------------------------------
(* A KalmanFilter1D and the operations on it.                              *)
(* kalman holds the filter (self), the last operation (op), the filter as  *)
(* it was before that operation (before), what the operation returned      *)
(* (value, None for predict and update) and the number of operations (n).  *)

MaxBatch == 3
MaxKalmanOps == 2

\* the measurements of one source field, in degrees: 20.0, 20.5, 19.75 and
\* a frost of -4.3
Measurements == {F(20), Rat(41, 2), Rat(79, 4), Rat(-43, 10)}
OptionalMeasurements == {None} \cup {Some(z) : z \in Measurements}
Batches == UNION {[1..n -> OptionalMeasurements] : n \in 0..MaxBatch}

\* process_variance and measurement_variance as _statistical_aggregate
\* passes them, and a measurement variance that is positive but
\* negligible against the initial uncertainty 1.0
ProcessVariances == {Rat(1, 10), Rat(1, 2)}
MeasurementVariances == {Rat(1, 2^FractionBits), F(1), F(2)}

InitKalman ==
    /\ \E q \in ProcessVariances, r \in MeasurementVariances :
         kalman = [self |-> KalmanFilter1D(q, r), op |-> [name |-> "__init__"],
                   before |-> KalmanFilter1D(q, r), value |-> None, n |-> 0]
    /\ AggIdle
    /\ ThemeIdle
    /\ SanIdle
    /\ SmoothingIdle
    /\ ParticleIdle
    /\ TasksIdle

KalmanDone(op, after, value) ==
    /\ kalman' = [self |-> after, op |-> op, before |-> kalman.self,
                  value |-> value, n |-> kalman.n + 1]
    /\ UNCHANGED <<aggVars, themeVars, sanVars, smoothing, particle, tasks>>

\* kf.predict()
KalmanPredict ==
    /\ kalman.n < MaxKalmanOps
    /\ KalmanDone([name |-> "predict"], Kalman_predict(kalman.self), None)

\* kf.update(measurement) and kf.update(measurement, r)
KalmanUpdate ==
    /\ kalman.n < MaxKalmanOps
    /\ \E measurement \in OptionalMeasurements,
          r \in {None} \cup {Some(v) : v \in MeasurementVariances} :
         KalmanDone([name |-> "update", measurement |-> measurement, r |-> r],
                    Kalman_update(kalman.self, measurement, r), None)

\* kf.fuse(measurements)
KalmanFuse ==
    /\ kalman.n < MaxKalmanOps
    /\ \E measurements \in Batches :
         \E o \in {Kalman_fuse(kalman.self, measurements, None)} :
             KalmanDone([name |-> "fuse", measurements |-> measurements],
                        o.self, Some(o.value))

NextKalman == KalmanPredict \/ KalmanUpdate \/ KalmanFuse

SpecKalman == InitKalman /\ [][NextKalman]_vars

\* the last operation was fuse(measurements) on a fresh filter
FreshFuse == kalman.op.name = "fuse" /\ kalman.n = 1

\* C14: on a fresh filter fuse([]) returns 0.0, fuse of a list of nulls
\* returns 0.0 and leaves the filter uninitialized, and fuse([x]) returns
\* exactly x.
C14_FuseOfNoneAndOfOne ==
    FreshFuse =>
        LET ms == kalman.op.measurements
        IN  /\ ms = <<>> => kalman.value = Some(F(0))
            /\ (\A i \in 1..Len(ms) : IsNone(ms[i]))
                   => kalman.value = Some(F(0)) /\ ~kalman.self.initialized
            /\ (Len(ms) = 1 /\ ~IsNone(ms[1]))
                   => kalman.value = Some(Val(ms[1]))

\* a fresh filter has fused the single measurement 20.5
C14_SingleMeasurementFused ==
    /\ FreshFuse
    /\ kalman.op.measurements = <<Some(Rat(41, 2))>>
    /\ kalman.value = Some(Rat(41, 2))

\* the orderings of a list
Orderings(list) ==
    {[i \in 1..Len(list) |-> list[f[i]]] : f \in Permutations(1..Len(list))}

\* C15: what fuse returns on a fresh filter, and the uncertainty p it
\* leaves, are the same for every ordering of the measurements.
C15_FuseIsOrderIndependent ==
    FreshFuse =>
        \A ms \in Orderings(kalman.op.measurements) :
            \E o \in {Kalman_fuse(kalman.before, ms, None)} :
                /\ Some(o.value) = kalman.value
                /\ o.self.p = kalman.self.p

\* C16: p is never negative; an update with a measurement and a fuse leave
\* p no larger than it was, an update with null leaves p as it was; only
\* predict lets p grow.
C16_UncertaintyGrowsOnlyInPredict ==
    /\ RLe(F(0), kalman.self.p)
    /\ kalman.op.name \in {"update", "fuse"}
           => RLe(kalman.self.p, kalman.before.p)
    /\ (kalman.op.name = "update" /\ IsNone(kalman.op.measurement))
           => kalman.self.p = kalman.before.p

---------------------------------------------------------------------------
(* An EWMA and one call of smooth_array.                                   *)
(* smoothing holds the filter (self), the argument (data, a list of        *)
(* Optional floats) and the list returned (smoothed, Pending before the    *)
(* call).                                                                  *)

MaxCurve == 3

\* alpha: the default 0.3, the 0.4 of _statistical_aggregate, and 1
Alphas == {Rat(3, 10), Rat(4, 10), F(1)}
CurveValues == {F(12), F(15), Rat(35, 2)}
Curves ==
    UNION {[1..n -> {None} \cup {Some(x) : x \in CurveValues}] : n \in 0..MaxCurve}

InitSmoothing ==
    /\ \E alpha \in Alphas, data \in Curves :
         smoothing = [self |-> EWMA(alpha), data |-> data, smoothed |-> Pending]
    /\ AggIdle
    /\ ThemeIdle
    /\ SanIdle
    /\ KalmanIdle
    /\ ParticleIdle
    /\ TasksIdle

\* ewma.smooth_array(data)
SmoothArray ==
    /\ smoothing.smoothed = Pending
    /\ smoothing' = [smoothing EXCEPT
                        !.smoothed = Some(EWMA_smooth_array(smoothing.self,
                                                            smoothing.data))]
    /\ UNCHANGED <<aggVars, themeVars, sanVars, kalman, particle, tasks>>

NextSmoothing == SmoothArray

SpecSmoothing == InitSmoothing /\ [][NextSmoothing]_vars

Smoothed == smoothing.smoothed # Pending

\* y[-1]: the first non-null input, or 0 when there is none
SmoothingSeed(data) ==
    IF \E i \in 1..Len(data) : ~IsNone(data[i])
    THEN Val(data[CHOOSE i \in 1..Len(data) :
                      /\ ~IsNone(data[i])
                      /\ \A j \in 1..(i - 1) : IsNone(data[j])])
    ELSE F(0)

\* C17: smooth_array returns a list y as long as its input x, with
\* y[i] = alpha*x[i] + (1-alpha)*y[i-1] where x[i] is not null and
\* y[i] = y[i-1] where it is, y[-1] being the first non-null input, or 0.
C17_SmoothArrayFollowsRecurrence ==
    Smoothed =>
        LET x == smoothing.data
            y == Val(smoothing.smoothed)
            alpha == smoothing.self.alpha
            prev(i) == IF i = 1 THEN SmoothingSeed(x) ELSE y[i - 1]
        IN  /\ Len(y) = Len(x)
            /\ \A i \in 1..Len(x) :
                 y[i] = IF IsNone(x[i]) THEN prev(i)
                        ELSE RAdd(RMul(alpha, Val(x[i])),
                                  RMul(RSub(F(1), alpha), prev(i)))

\* the curve null, 15.0, 17.5 has been smoothed: the null holds the seed
\* 15.0 and 17.5 is pulled towards it
C17_CurveWithNullSmoothed ==
    /\ Smoothed
    /\ smoothing.data = <<None, Some(F(15)), Some(Rat(35, 2))>>
    /\ Val(smoothing.smoothed)[1] = F(15)
    /\ RLt(F(15), Val(smoothing.smoothed)[3])
    /\ RLt(Val(smoothing.smoothed)[3], Rat(35, 2))

\* C18: smooth_array maps the empty list to the empty list and a constant
\* list c, ..., c to itself.
C18_ConstantCurveIsFixedPoint ==
    Smoothed =>
        LET x == smoothing.data
        IN  /\ x = <<>> => Val(smoothing.smoothed) = <<>>
            /\ (/\ x # <<>>
                /\ \A i \in 1..Len(x) : ~IsNone(x[i]) /\ x[i] = x[1])
                   => Val(smoothing.smoothed) = MapSeq(x, Val)

---------------------------------------------------------------------------
(* A ParticleFilter1D and the operations on it.                            *)
(* particle holds the filter (self), the last operation (op), the filter   *)
(* as it was before that operation (before), what the operation returned   *)
(* (value) or raised (error), and the number of operations (n).            *)

NumParticles == 2
MaxParticleBatch == 2
MaxParticleOps == 2

\* samples of the standard normal distribution
StandardNormals == {Rat(-1, 4), F(1)}
Draws == [1..NumParticles -> StandardNormals]
Choices == [1..NumParticles -> 1..NumParticles]

\* measurements near the particles and one far from every particle
ParticleMeasurements == {F(20), F(60)}
ParticleBatches ==
    UNION {[1..k -> {None} \cup {Some(z) : z \in ParticleMeasurements}] :
               k \in 0..MaxParticleBatch}
MeasurementNoises == {F(2)}

InitParticle ==
    /\ particle = [self |-> ParticleFilter1D(NumParticles, Rat(1, 2)),
                   op |-> [name |-> "__init__"],
                   before |-> ParticleFilter1D(NumParticles, Rat(1, 2)),
                   value |-> None, error |-> None, n |-> 0]
    /\ AggIdle
    /\ ThemeIdle
    /\ SanIdle
    /\ KalmanIdle
    /\ SmoothingIdle
    /\ TasksIdle

ParticleDone(op, after, value, error) ==
    /\ particle' = [self |-> after, op |-> op, before |-> particle.self,
                    value |-> value, error |-> error, n |-> particle.n + 1]
    /\ UNCHANGED <<aggVars, themeVars, sanVars, kalman, smoothing, tasks>>

\* pf.initialize(initial_guess)
ParticleInitialize ==
    /\ particle.n < MaxParticleOps
    /\ \E initial_guess \in ParticleMeasurements, draws \in Draws :
         ParticleDone([name |-> "initialize", initial_guess |-> initial_guess],
                      Particle_initialize(particle.self, initial_guess, F(5), draws),
                      None, None)

\* pf.predict()
ParticlePredict ==
    /\ particle.n < MaxParticleOps
    /\ \E draws \in Draws :
         ParticleDone([name |-> "predict"], Particle_predict(particle.self, draws),
                      None, None)

\* pf.update(measurement, measurement_noise)
ParticleUpdate ==
    /\ particle.n < MaxParticleOps
    /\ \E measurement \in {None} \cup {Some(z) : z \in ParticleMeasurements},
          measurement_noise \in MeasurementNoises :
         ParticleDone([name |-> "update", measurement |-> measurement,
                       measurement_noise |-> measurement_noise],
                      Particle_update(particle.self, measurement, measurement_noise),
                      None, None)

\* pf.resample()
ParticleResample ==
    /\ particle.n < MaxParticleOps
    /\ \E indexes \in IF particle.self.initialized THEN Drawable(particle.self)
                      ELSE {[i \in 1..NumParticles |-> i]} :
         \E r \in {Particle_resample(particle.self, indexes)} :
             ParticleDone([name |-> "resample"], r.self, None, r.error)

\* pf.fuse(measurements, measurement_noise); an initialized filter draws
\* nothing to initialize
ParticleFuse ==
    /\ particle.n < MaxParticleOps
    /\ \E measurements \in ParticleBatches, measurement_noise \in MeasurementNoises,
          init_draws \in IF particle.self.initialized
                         THEN {[i \in 1..NumParticles |-> F(0)]} ELSE Draws,
          predict_draws \in Draws, indexes \in Choices :
         \E o \in {Particle_fuse(particle.self, measurements, measurement_noise,
                                 init_draws, predict_draws, indexes)} :
             /\ o.drawn
             /\ ParticleDone([name |-> "fuse", measurements |-> measurements,
                              measurement_noise |-> measurement_noise,
                              log |-> o.log],
                             o.self, o.value, o.error)

NextParticle ==
    \/ ParticleInitialize
    \/ ParticlePredict
    \/ ParticleUpdate
    \/ ParticleResample
    \/ ParticleFuse

SpecParticle == InitParticle /\ [][NextParticle]_vars

\* the weight total the last update found before it normalised
UpdateTotal ==
    SumTo(Particle_weighted(particle.before, Val(particle.op.measurement),
                            particle.op.measurement_noise),
          Len(particle.before.weights))

\* the last operation was an update whose weight total was 0 or less
UpdateCollapsed ==
    /\ particle.op.name = "update"
    /\ particle.before.initialized
    /\ ~IsNone(particle.op.measurement)
    /\ RLe(UpdateTotal, F(0))

\* there are N positions and N weights, no weight is negative, no error
\* was raised, and a collapsed update has left the weights uniform
ParticleSetIsSound ==
    /\ Len(particle.self.particles) = particle.self.n
    /\ Len(particle.self.weights) = particle.self.n
    /\ \A i \in 1..Len(particle.self.weights) : RLe(F(0), particle.self.weights[i])
    /\ IsNone(particle.error)
    /\ UpdateCollapsed => particle.self.weights = Uniform(particle.self.n)

WeightTotal == SumTo(particle.self.weights, Len(particle.self.weights))

\* C19: once the filter is initialized it has N positions and N weights,
\* every weight is >= 0 and the weights sum to 1; an update whose weight
\* total is <= 0 resets the weights to 1/N and raises nothing.
C19_WeightsSumToOne ==
    particle.self.initialized => ParticleSetIsSound /\ WeightTotal = F(1)

\* the rounding error of normalising and then summing N weights: one unit
\* in the last place of 1 for each weight
WeightTolerance == Rat(2 * NumParticles, 2^MantissaBits)

\* C19 (amended): once the filter is initialized it has N positions and N
\* weights, every weight is >= 0 and the weights sum to 1 up to
\* floating-point rounding; an update whose weight total is <= 0 resets the
\* weights to 1/N and raises nothing.
C19_WeightsSumToOneRounded ==
    particle.self.initialized =>
        /\ ParticleSetIsSound
        /\ RLe(RSub(F(1), WeightTolerance), WeightTotal)
        /\ RLe(WeightTotal, RAdd(F(1), WeightTolerance))

\* an update on an initialized filter found every weight dead and left
\* uniform weights
C19_CollapsedUpdateReset ==
    /\ particle.self.initialized
    /\ UpdateCollapsed
    /\ particle.self.weights = Uniform(particle.self.n)
    /\ IsNone(particle.error)

\* the last operation was a fuse of a list with a non-null measurement
FusedSome ==
    /\ particle.op.name = "fuse"
    /\ \E i \in 1..Len(particle.op.measurements) : ~IsNone(particle.op.measurements[i])

\* the non-null values of a list of Optional floats, in list order
RECURSIVE NonNull(_)
NonNull(list) ==
    IF list = <<>> THEN <<>>
    ELSE (IF IsNone(Head(list)) THEN <<>> ELSE <<Val(Head(list))>>) \o NonNull(Tail(list))

\* the calls the claim lists, for a filter that was or was not initialized
FuseCalls(initialized, valid) ==
    (IF initialized THEN <<>> ELSE <<Step("initialize", Some(MedianOf(valid)))>>)
        \o <<Step("predict", None)>>
        \o [i \in 1..Len(valid) |-> Step("update", Some(valid[i]))]
        \o <<Step("resample", None), Step("estimate", None)>>

\* C20: fuse on a list with at least one non-null measurement calls
\* initialize with the median of the non-null measurements only if the
\* filter is not yet initialized, then predict once, update once per
\* non-null measurement in list order, resample once and estimate, whose
\* value it returns; on return the weights are uniform.
C20_FuseRunsStepsInOrder ==
    FusedSome =>
        /\ particle.op.log = FuseCalls(particle.before.initialized,
                                       NonNull(particle.op.measurements))
        /\ IsNone(particle.error)
        /\ particle.value = Some(Particle_estimate(particle.self))
        /\ particle.self.initialized
        /\ particle.self.weights = Uniform(particle.self.n)

\* a fresh filter has fused two different measurements and returned
C20_FreshFilterFusedTwo ==
    /\ FusedSome
    /\ ~particle.before.initialized
    /\ Len(NonNull(particle.op.measurements)) = 2
    /\ particle.op.measurements[1] # particle.op.measurements[2]
    /\ Len(particle.op.log) = 6
    /\ ~IsNone(particle.value)

---------------------------------------------------------------------------
(* Concurrent requests: coroutines of one WeatherAggregator on one event   *)
(* loop.  A task runs from where it stands to its next suspension, the     *)
(* await of chat.completions.create, or to its end; tasks hold the calls   *)
(* in the order they were made.  Each call has the arguments it was made   *)
(* with, the local variables of its coroutine (the list is the caller's    *)
(* object, so what the call writes into a snapshot shows there), what the  *)
(* AI call and the astronomy calculation did for it, the turns of the      *)
(* event loop it ran in, its outcome and the calls it made.                *)

MaxTasks == 2

TaskMethods == {"aggregate", "_statistical_aggregate", "_ai_aggregate"}

TaskFirst(current, hourly) ==
    [provider |-> ProviderLabels[1], location |-> Place(CleanName),
     current |-> Some(current), daily_forecast |-> Daily, hourly_forecast |-> hourly,
     astronomy |-> None]

\* two requests' lists: they differ in every snapshot
TaskLists ==
    {<<TaskFirst(BaseCurrent, Hourly),
       OtherSnapshot(2, Some([BaseCurrent EXCEPT !.temperature = Rat(205, 10),
                                                 !.wind_speed = Some(F(12))]))>>,
     <<TaskFirst([BaseCurrent EXCEPT !.temperature = Rat(198, 10),
                                     !.wind_speed = Some(F(9))], <<>>),
       OtherSnapshot(2, Some([BaseCurrent EXCEPT !.temperature = F(26),
                                                 !.wind_speed = None]))>>}

\* what the AI call does for a task: it fails, the task is cancelled while
\* it waits, or an answer arrives
TaskAiOutcomes ==
    {[kind |-> "raise", error |-> "APITimeoutError"],
     [kind |-> "cancelled"],
     [kind |-> "response", content |-> [form |-> "invalid"]],
     [kind |-> "response", content |-> [form |-> "json", value |-> PyDict(GoodAnswer)]]}

\* the cancellation of a waiting task, taken for an error of the AI call
AsError(ai) ==
    IF ai.kind = "cancelled" THEN [kind |-> "raise", error |-> "CancelledError"] ELSE ai

\* the coroutine of a call whose handler is `except BaseException`: the
\* cancellation is caught like any error of the AI call
TaskCall_catching_cancellation(method, self_has_ai, weather_data_, language, ai, astro) ==
    IF method = "aggregate"
    THEN aggregate(self_has_ai, weather_data_, language, AsError(ai), astro)
    ELSE IF method = "_ai_aggregate"
    THEN _ai_aggregate(weather_data_, language, AsError(ai))
    ELSE _statistical_aggregate(weather_data_, language)

\* the coroutine of a call, run to its end
TaskCall(method, self_has_ai, weather_data_, language, ai, astro) ==
    IF method = "aggregate"
    THEN aggregate(self_has_ai, weather_data_, language, ai, astro)
    ELSE IF method = "_ai_aggregate" THEN _ai_aggregate(weather_data_, language, ai)
    ELSE _statistical_aggregate(weather_data_, language)

\* the call has reached await self.client.chat.completions.create(...)
Suspends(r) == \E i \in 1..Len(r.calls) : r.calls[i] = "chat.completions.create"

\* the local variables of the coroutine of task t, as if kept on the
\* aggregator: those of the latest call
Locals_shared(ts, t) == ts[Len(ts)].locals

\* the local variables of the coroutine of task t: its own frame
Locals(ts, t) == ts[t].locals

\* the turns of the event loop so far
RECURSIVE Turns(_)
Turns(ts) == IF ts = <<>> THEN 0 ELSE Len(Head(ts).turns) + Turns(Tail(ts))

\* Task frame after the event loop has run it once more with the locals
\* given; r is the coroutine run to its end from those locals, and the AI
\* outcome is consulted only by a task that waits for it.
Advanced(frame, r, ai, astro, turn) ==
    IF frame.pc = "created" /\ Suspends(r)
    THEN [frame EXCEPT !.pc = "awaiting", !.astro = astro,
                       !.turns = Append(@, turn)]
    ELSE [frame EXCEPT !.pc = "done",
                       !.ai = IF frame.pc = "awaiting" THEN ai ELSE @,
                       !.astro = IF frame.pc = "created" THEN astro ELSE @,
                       !.locals = [@ EXCEPT !.weather_data = r.weather_data],
                       !.outcome = r.outcome,
                       !.calls = r.calls,
                       !.turns = Append(@, turn)]

InitTasks ==
    /\ tasks = <<>>
    /\ has_ai \in BOOLEAN
    /\ weather_data = <<>>
    /\ last_call = [method |-> "none"]
    /\ result = [kind |-> "pending"]
    /\ calls = <<>>
    /\ prompt = None
    /\ ThemeIdle
    /\ SanIdle
    /\ FilterIdle

\* asyncio.create_task(aggregator.aggregate(weather_data, user_language)),
\* or of one of the coroutines aggregate hands two or more snapshots to
CreateTask ==
    /\ Len(tasks) < MaxTasks
    /\ \E method \in TaskMethods, wd \in TaskLists, language \in Languages :
         tasks' = Append(tasks,
                         [method |-> method,
                          args |-> [weather_data |-> wd, language |-> language],
                          locals |-> [weather_data |-> wd, language |-> language],
                          pc |-> "created", ai |-> [kind |-> "cancelled"],
                          astro |-> [kind |-> "raise"],
                          outcome |-> [kind |-> "pending"], calls |-> <<>>,
                          turns |-> <<>>])
    /\ UNCHANGED <<aggVars, themeVars, sanVars, filterVars>>

\* The event loop runs task t: from its start to the await of the AI call
\* or to its end, or from that await to its end.
RunTask ==
    /\ \E t \in 1..Len(tasks) :
         /\ tasks[t].pc # "done"
         /\ \E ai \in IF tasks[t].pc = "awaiting" THEN TaskAiOutcomes
                      ELSE {[kind |-> "cancelled"]},
               astro \in IF tasks[t].pc = "created" /\ tasks[t].method = "aggregate"
                         THEN AstroOutcomes ELSE {tasks[t].astro} :
              \E l \in {Locals(tasks, t)} :
                 \E r \in {TaskCall(tasks[t].method, has_ai, l.weather_data,
                                    l.language, ai, astro)} :
                     tasks' = [tasks EXCEPT
                                 ![t] = Advanced(@, r, ai, astro, Turns(tasks) + 1)]
    /\ UNCHANGED <<aggVars, themeVars, sanVars, filterVars>>

NextTasks == CreateTask \/ RunTask

SpecTasks == InitTasks /\ [][NextTasks]_vars

\* what the call of a finished task does when it runs alone, on the
\* arguments it was made with
Alone(frame) ==
    TaskCall(frame.method, has_ai, frame.args.weather_data, frame.args.language,
             frame.ai, frame.astro).outcome

EveryTaskAsAlone ==
    \A t \in 1..Len(tasks) :
        tasks[t].pc = "done" => tasks[t].outcome = Alone(tasks[t])

---------------------------------------------------------------------------
(* The statistical path: what it returns.                                  *)

\* the non-null values of a field of the current states of the snapshots
\* that have one, in input order
Reported(field) ==
    MapSeq(SelectSeq(Input, LAMBDA w : /\ ~IsNone(w.current)
                                       /\ ~IsNone(Val(w.current)[field])),
           LAMBDA w : Val(Val(w.current)[field]))

\* the median of a list, null for the empty list
MedianOrNull(values) == IF values = <<>> THEN None ELSE Some(MedianOf(values))

\* C22: on the statistical path the result's humidity is the median of all
\* sources' non-null humidities and its feels_like the median of all
\* sources' non-null feels_like values, a feels-like of 0.0 included.
C22_HumidityAndFeelsLikeAreMedians ==
    (Called("_statistical_aggregate") /\ Returns)
    => /\ MapSeq(result.value.current.humidity, F)
              = MedianOrNull(MapSeq(Reported("humidity"), F))
       /\ result.value.current.feels_like = MedianOrNull(Reported("feels_like"))

---------------------------------------------------------------------------
(* aggregate and the astronomy backfill.                                   *)

\* the path aggregate hands the list to (single-source, AI or statistical)
\* returns a forecast when it is given the list as it came
PathReturns ==
    IF Len(Input) = 1 THEN TRUE
    ELSE IF has_ai
    THEN _ai_aggregate(Input, last_call.args.user_language,
                       last_call.args.ai).outcome.kind = "return"
    ELSE _statistical_aggregate(Input, last_call.args.user_language).outcome.kind
             = "return"

\* C23: a failure of the astronomy backfill (the calculation raising, or an
\* astronomy block without the moon and daylight fields) never makes
\* aggregate fail: aggregate goes on to its path and returns that path's
\* forecast, and where the calculation raised the astronomy block is left
\* as it came.
C23_BackfillFailureNeverBlocks ==
    (Called("aggregate") /\ Input # <<>> /\ PathReturns)
    => /\ Returns
       /\ last_call.args.astro.kind = "raise"
              => weather_data[1].astronomy = Input[1].astronomy


\* the event loop resumes waiting task t with the cancellation, in this step
CancelledNow(t) ==
    /\ tasks[t].pc = "awaiting"
    /\ tasks'[t].pc = "done"
    /\ tasks'[t].ai.kind = "cancelled"

\* C24: when a call is cancelled while it awaits the AI call, the
\* cancellation reaches the caller: the call raises CancelledError, has not
\* run the statistical fallback and returns no forecast, and the step
\* changes neither the aggregator's fields, nor the snapshots the call was
\* given (their hourly temperatures included), nor any other call.
C24_CancellationPropagates ==
    [][\A t \in 1..Len(tasks) :
          CancelledNow(t)
          => /\ tasks'[t].outcome = Raise("CancelledError")
             /\ \A i \in 1..Len(tasks'[t].calls) :
                    tasks'[t].calls[i] # "_statistical_aggregate"
             /\ tasks'[t].locals = tasks[t].args
             /\ has_ai' = has_ai
             /\ \A u \in 1..Len(tasks) : u # t => tasks'[u] = tasks[u]]_vars

\* a call was cancelled while it waited for the AI, after another call on
\* another list had started and reached its own AI call
C24_WaitingTaskCancelled ==
    /\ Len(tasks) = 2
    /\ tasks[1].pc = "done"
    /\ tasks[1].ai.kind = "cancelled"
    /\ tasks[1].turns = <<1, 3>>
    /\ tasks[1].outcome = Raise("CancelledError")
    /\ tasks[2].pc = "awaiting"
    /\ tasks[2].args.weather_data # tasks[1].args.weather_data


\* C25: every forecast returned, by aggregate or by the statistical or AI
\* path it hands the list to (the AI answering or failing), names in
\* sources_used the provider of every input snapshot, one per snapshot in
\* input order, snapshots without a current state included.
C25_SourcesUsedListsEveryInput ==
    Returns
    => /\ Len(result.value.sources_used) = Len(Input)
       /\ \A i \in 1..Len(Input) : result.value.sources_used[i] = Input[i].provider

\* the statistical path has returned a forecast for three snapshots of
\* which the second has no current state
C25_SilentSourceListed ==
    /\ Called("_statistical_aggregate") /\ Returns
    /\ Len(Input) = 3
    /\ IsNone(Input[2].current)
    /\ ~IsNone(Input[3].current)
    /\ Len(result.value.sources_used) = 3


\* what the sources report for a field the statistical path fuses; the
\* temperature is no optional field
ReportedField(f) == IF f = "temperature" THEN InputTemps ELSE Reported(f)

\* the KalmanFilter1D.fuse calls the last call made
FuseCallCount == Cardinality({i \in 1..Len(calls) : calls[i] = "KalmanFilter1D.fuse"})

\* the fields the statistical path fuses that some source reports
FusedFields == {f \in {"temperature", "wind_speed", "pressure"} : ReportedField(f) # <<>>}

\* C28: when the statistical path returns, it has called KalmanFilter1D.fuse
\* once for each of temperature, wind speed and pressure that some source
\* reports and for no other, and a wind speed or pressure no source reports
\* is the first source's (null) value in the result, not 0.0.
C28_NoSentinelInResult ==
    (Called("_statistical_aggregate") /\ Returns)
    => /\ FuseCallCount = Cardinality(FusedFields)
       /\ \A f \in {"wind_speed", "pressure"} :
            IF ReportedField(f) = <<>>
            THEN result.value.current[f] = Val(Input[1].current)[f]
            ELSE ~IsNone(result.value.current[f])

\* the statistical path has returned for sources of which none reports a
\* pressure
C28_NoPressureReported ==
    /\ Called("_statistical_aggregate") /\ Returns
    /\ ReportedField("pressure") = <<>>
    /\ ReportedField("wind_speed") # <<>>
    /\ IsNone(result.value.current.pressure)


\* C29: the forecast the statistical path returns has the weather code,
\* weather description, UV index and cloud cover of the first snapshot,
\* whatever the other snapshots report, and the first snapshot's daily
\* series as it came.
C29_CategoricalFieldsFromFirst ==
    (Called("_statistical_aggregate") /\ Returns)
    => /\ \A f \in {"weather_code", "weather_description", "uv_index", "cloud_cover"} :
            result.value.current[f] = Val(Input[1].current)[f]
       /\ result.value.daily_forecast = Input[1].daily_forecast

\* the statistical path has returned for three snapshots whose last one
\* reports another weather code, description and cloud cover than the first
C29_SourcesDisagreeOnCode ==
    /\ Called("_statistical_aggregate") /\ Returns
    /\ Len(Input) = 3
    /\ ~IsNone(Input[3].current)
    /\ Val(Input[3].current).weather_code # Val(Input[1].current).weather_code
    /\ Val(Input[3].current).weather_description
           # Val(Input[1].current).weather_description
    /\ Val(Input[3].current).cloud_cover # Val(Input[1].current).cloud_cover
    /\ Input[1].daily_forecast # <<>>

---------------------------------------------------------------------------
(* KalmanFilter1D: fusing batch after batch.                               *)

\* the measurements of the last fuse, nulls left out
FusedValues ==
    MapSeq(SelectSeq(kalman.op.measurements, LAMBDA m : ~IsNone(m)), Val)

\* C30: for a fresh filter and a non-empty list of non-null measurements,
\* whatever the positive measurement variance, the value fuse returns lies
\* between the least and the greatest of the measurements.
C30_FusedValueWithinRange ==
    (/\ FreshFuse
     /\ kalman.op.measurements # <<>>
     /\ \A i \in 1..Len(kalman.op.measurements) : ~IsNone(kalman.op.measurements[i]))
    => /\ RLe(SortedAt(FusedValues, 0), Val(kalman.value))
       /\ RLe(Val(kalman.value), SortedAt(FusedValues, Len(FusedValues) - 1))


\* C30 (amended): for a fresh filter whose measurement variance is at least
\* the initial uncertainty 1.0 and a non-empty list of non-null
\* measurements, the value fuse returns lies between the least and the
\* greatest of the measurements.
C30_FusedValueWithinRangeForUnitVariance ==
    (/\ FreshFuse
     /\ RLe(F(1), kalman.before.r)
     /\ kalman.op.measurements # <<>>
     /\ \A i \in 1..Len(kalman.op.measurements) : ~IsNone(kalman.op.measurements[i]))
    => /\ RLe(SortedAt(FusedValues, 0), Val(kalman.value))
       /\ RLe(Val(kalman.value), SortedAt(FusedValues, Len(FusedValues) - 1))

\* a fresh filter of measurement variance 2.0 has fused 20.5, -4.3, 19.75
\* to a value strictly inside their range
C30_SpreadBatchFused ==
    /\ FreshFuse
    /\ kalman.before.r = F(2)
    /\ kalman.op.measurements = <<Some(Rat(41, 2)), Some(Rat(-43, 10)), Some(Rat(79, 4))>>
    /\ RLt(Rat(-43, 10), Val(kalman.value))
    /\ RLt(Val(kalman.value), Rat(41, 2))

\* the filter after update(z) for each measurement z of a list in order,
\* with the filter's own measurement variance
RECURSIVE UpdatedBy(_, _)
UpdatedBy(kf, list) ==
    IF list = <<>> THEN kf
    ELSE UpdatedBy(Kalman_update(kf, Head(list), Some(kf.r)), Tail(list))

\* the last operation was a fuse of a non-empty list on a filter that was
\* initialized already
FusedAgain ==
    /\ kalman.op.name = "fuse"
    /\ kalman.before.initialized
    /\ kalman.op.measurements # <<>>

\* C26: fuse on a filter that is initialized already does not seed x from
\* the median again and carries p over: the filter it leaves is the one the
\* updates with the batch's measurements make of the filter as it was, and
\* the value returned is that filter's x.
C26_SecondFuseCarriesState ==
    FusedAgain
    => /\ kalman.self = UpdatedBy(kalman.before, kalman.op.measurements)
       /\ kalman.value = Some(kalman.self.x)

\* a filter that had fused one batch (its p is below the 1.0 of __init__
\* and of a seeding update) has fused a second batch to another value than
\* a fresh filter returns for that batch
C26_SecondBatchDiffersFromFresh ==
    /\ FusedAgain
    /\ kalman.n = 2
    /\ RLt(kalman.before.p, F(1))
    /\ FusedValues # <<>>
    /\ kalman.value
           # Some(Kalman_fuse(KalmanFilter1D(kalman.before.q, kalman.before.r),
                              kalman.op.measurements, None).value)

\* C27: a fuse with at least one measurement applies predict (p <- p + q)
\* once, before its updates: the p it leaves is the one the updates make of
\* the predicted p.
C27_FusePredictsOncePerBatch ==
    (kalman.op.name = "fuse" /\ FusedValues # <<>>)
    => kalman.self.p
           = UpdatedBy([Kalman_predict(kalman.before) EXCEPT !.initialized = TRUE],
                       kalman.op.measurements).p

---------------------------------------------------------------------------
(* ParticleFilter1D: one fuse of a batch on a fresh filter, with the       *)
(* default measurement_noise 1.0.  The draws of np.random.normal include   *)
(* one that lies three standard deviations below the mean.                 *)

WideNormals == {F(-3), F(-1), Rat(-1, 4), F(1)}
WideDraws == [1..NumParticles -> WideNormals]

\* the batches of test_particle: perfect agreement, and one outlier
AgreeingBatch == <<Some(F(50)), Some(F(50)), Some(F(50))>>
OutlierBatch == <<Some(F(10)), Some(F(50)), Some(F(50))>>

\* pf = ParticleFilter1D(...); pf.fuse(batch)
FuseFresh ==
    /\ particle.n = 0
    /\ \E measurements \in {AgreeingBatch, OutlierBatch},
          init_draws \in WideDraws, predict_draws \in WideDraws, indexes \in Choices :
         \E o \in {Particle_fuse(particle.self, measurements, F(1),
                                 init_draws, predict_draws, indexes)} :
             /\ o.drawn
             /\ ParticleDone([name |-> "fuse", measurements |-> measurements,
                              measurement_noise |-> F(1), log |-> o.log],
                             o.self, o.value, o.error)

NextOutlier == FuseFresh

SpecOutlier == InitParticle /\ [][NextOutlier]_vars

\* |a - b|
Distance(a, b) == IF RLt(a, b) THEN RSub(b, a) ELSE RSub(a, b)

\* the arithmetic mean of a list
MeanOf(values) == RDiv(SumTo(values, Len(values)), F(Len(values)))

\* how far a particle can start from the initial guess: the widest draw
\* times the spread 5.0 and the process noise 0.5 together
SamplingTolerance == RMul(F(3), RAdd(F(5), Rat(1, 2)))

\* C21: fuse([10, 50, 50]) returns an estimate closer to 50 than the
\* arithmetic mean of the three measurements (36.67) is, and
\* fuse([50, 50, 50]) an estimate within sampling tolerance of 50.
C21_OutlierIsDiscounted ==
    (particle.op.name = "fuse" /\ ~IsNone(particle.value))
    => /\ particle.op.measurements = OutlierBatch
              => RLt(Distance(Val(particle.value), F(50)),
                     Distance(MeanOf(<<F(10), F(50), F(50)>>), F(50)))
       /\ particle.op.measurements = AgreeingBatch
              => RLe(Distance(Val(particle.value), F(50)), SamplingTolerance)

===========================================================================
